---- MODULE Spec2Model ----
(***************************************************************************)
(* A model of pysongbook: the chord parsers of pysongbook/io.py and the    *)
(* song normalization of pysongbook/model.py.                              *)
(*                                                                         *)
(* Text is a sequence of one-character strings, so that matching, slicing  *)
(* and concatenation are computed character by character as the regular    *)
(* expressions and the string methods of the source compute them.          *)
(***************************************************************************)
EXTENDS Integers, Sequences, FiniteSets, TLC

VARIABLES
    chord_str,    \* the argument of DefaultChordParser.parse
    pc,           \* position of the running parse
    root,         \* the matched root tone (io.py:110)
    modif_str,    \* the text parse_modifiers still has to consume (io.py:117)
    modifiers,    \* the modifiers yielded so far (io.py:121, 125)
    parsed,       \* what parse returned: a Chord or SongParseError
    reparsed,     \* parse(parsed.to_string())
    latex_items,  \* the structure of a LaTeX-notation chord
    latex_parsed, \* ModifiedSongsLatexChordParser.parse of its LaTeX text
    plain_parsed, \* DefaultChordParser.parse of its plain text
    heap,         \* the Strophe and item objects; an object's id is its index
    next_oid,     \* the identity the next segment or annotation object gets
    song,         \* the Song normalized() is called on
    npc,          \* position of the calls of normalized()
    copied,       \* the deep copy of song.items the first call worked on
    linked,       \* what _link_strophe_repeats returned in the first call
    result,       \* song.normalized(): a Song or the raised error
    result2,      \* song.normalized().normalized()
    before_fill,  \* the segments of the items as _fill_initial_plain_segments received them
    song_text,    \* the argument of DefaultFormat.loads
    n_parts,      \* the parts typed into song_text
    ppc,          \* position of the calls of DefaultFormat
    loaded,       \* DefaultFormat.loads(song_text): a Song or the raised error
    dumped,       \* DefaultFormat.dumps(loaded)
    reloaded,     \* DefaultFormat.loads(dumped)
    latex_text,   \* the argument of ModifiedSongsLatexFormat.loads
    n_chunks,     \* the strophe chunks typed into latex_text
    lpc,          \* position of the calls of ModifiedSongsLatexFormat
    latex_loaded, \* ModifiedSongsLatexFormat.loads(latex_text): a Song or the raised error
    dump_heap,    \* the objects of the song that dumps is called on
    dump_song,    \* the song that dumps is called on, or the error normalized() raised
    latex_dumped, \* ModifiedSongsLatexFormat.dumps(dump_song): the text or the raised error
    agama_song,   \* the song whose strophes AgamaFormat dumps
    apc,          \* position of the calls on the strophes of agama_song
    split,        \* splitlines() of each segment of the last strophe
    agama_dumped, \* AgamaFormat.dump_strophe of each strophe: the text or the raised error
    chord_dumped, \* ModifiedSongsLatexFormat.dump_chord(parsed)
    chord_loaded, \* ModifiedSongsLatexChordParser.parse(chord_dumped)
    body_text,    \* the body of a LaTeX strophe
    bpc,          \* position of the calls on body_text
    parsed_parts, \* _parse_strophe_part(body_text, pos) for every position of body_text
    body_segments \* _parse_strophe_segments(body_text, chords_on=True)

chordVars == <<chord_str, pc, root, modif_str, modifiers, parsed, reparsed>>
latexVars == <<latex_items, latex_parsed, plain_parsed>>

normVars == <<heap, next_oid, song, npc, copied, linked, result, result2, before_fill>>

plainVars == <<song_text, n_parts, ppc, loaded, dumped, reloaded>>

songLatexVars == <<latex_text, n_chunks, lpc, latex_loaded, dump_heap, dump_song, latex_dumped>>

agamaVars == <<agama_song, apc, split, agama_dumped>>

dumpChordVars == <<chord_dumped, chord_loaded>>

bodyVars == <<body_text, bpc, parsed_parts, body_segments>>

vars == <<chordVars, latexVars, normVars, plainVars, songLatexVars, agamaVars,
          dumpChordVars, bodyVars>>

----------------------------------------------------------------------------
(* Bounds and input alphabets.                                             *)

\* Longest chord string given to DefaultChordParser.parse.
MaxChordLen == 5

\* The characters chord strings are drawn from: a root letter, the sharp and
\* flat signs, the letters of maj, m and sus (a, j and u alone match no
\* pattern), the digits 7 and 5 (the default altered factor), + and /.
ChordAlphabet ==
    {"C", "#", "b", "m", "a", "j", "7", "5", "s", "u", "+", "/"}

\* Outcomes that are not values of the model: nothing yet, and the raised error.
None == [none |-> TRUE]
SongParseError == [raised |-> "SongParseError"]

----------------------------------------------------------------------------
(* Text helpers.                                                           *)

Drop(s, n) == SubSeq(s, n + 1, Len(s))

Take(s, n) == SubSeq(s, 1, n)

StartsWith(s, p) == Len(s) >= Len(p) /\ Take(s, Len(p)) = p

Digits == {"0", "1", "2", "3", "4", "5", "6", "7", "8", "9"}

DigitValue(c) ==
    CASE c = "0" -> 0 [] c = "1" -> 1 [] c = "2" -> 2 [] c = "3" -> 3
      [] c = "4" -> 4 [] c = "5" -> 5 [] c = "6" -> 6 [] c = "7" -> 7
      [] c = "8" -> 8 [] c = "9" -> 9

DigitChar(d) == <<"0", "1", "2", "3", "4", "5", "6", "7", "8", "9">>[d + 1]

\* int(text) for a text of decimal digits.
RECURSIVE IntOf(_)
IntOf(s) ==
    IF s = <<>> THEN 0
    ELSE 10 * IntOf(Take(s, Len(s) - 1)) + DigitValue(s[Len(s)])

\* str(n) for n >= 0.
RECURSIVE StrOf(_)
StrOf(n) ==
    IF n < 10 THEN <<DigitChar(n)>>
    ELSE StrOf(n \div 10) \o <<DigitChar(n % 10)>>

\* The number of leading characters of s that are decimal digits.
RECURSIVE DigitRun(_)
DigitRun(s) ==
    IF s # <<>> /\ Head(s) \in Digits THEN 1 + DigitRun(Tail(s)) ELSE 0

----------------------------------------------------------------------------
(* The chord model (model.py:54-141).                                      *)

Minor == [kind |-> "Minor"]
DominantSeventh == [kind |-> "DominantSeventh"]
MajorSeventh == [kind |-> "MajorSeventh"]
AddedNote(factor) == [kind |-> "AddedNote", factor |-> factor]
Suspended(factor) == [kind |-> "Suspended", factor |-> factor]
Altered(direction, factor) ==
    [kind |-> "Altered", direction |-> direction, factor |-> factor]
BassNote(note) == [kind |-> "BassNote", note |-> note]
GenericChordModifier(string) == [kind |-> "GenericChordModifier", string |-> string]

Chord(r, mods) == [root |-> r, modifiers |-> mods]

\* ChordModifier.to_string of each variant.
ModifierToString(m) ==
    CASE m.kind = "Minor" -> <<"m">>
      [] m.kind = "DominantSeventh" -> <<"7">>
      [] m.kind = "MajorSeventh" -> <<"m", "a", "j", "7">>
      [] m.kind = "AddedNote" -> StrOf(m.factor)
      [] m.kind = "Suspended" -> <<"s", "u", "s">> \o StrOf(m.factor)
      [] m.kind = "Altered" ->
            IF m.factor = 5 THEN m.direction ELSE m.direction \o StrOf(m.factor)
      [] m.kind = "BassNote" -> <<"/">> \o m.note
      [] m.kind = "GenericChordModifier" -> m.string

RECURSIVE JoinModifiers(_)
JoinModifiers(mods) ==
    IF mods = <<>> THEN <<>>
    ELSE ModifierToString(Head(mods)) \o JoinModifiers(Tail(mods))

\* Chord.to_string.
ChordToString(c) == c.root \o JoinModifiers(c.modifiers)

----------------------------------------------------------------------------
(* DefaultChordParser (io.py:94-126).                                      *)

ToneLetters == {"A", "B", "C", "D", "E", "F", "G", "H"}
Accidentals == {"#", "b"}

\* A root pattern that misses the accidental: [A-H] alone.
ToneMatchLenLetterOnly(s) ==
    IF s = <<>> \/ Head(s) \notin ToneLetters THEN 0 ELSE 1

\* tone_pattern.match(s): the length of the match of [A-H](?:#|b)? at the
\* start of s, 0 when there is none.
ToneMatchLen(s) ==
    IF s = <<>> \/ Head(s) \notin ToneLetters THEN 0
    ELSE IF Len(s) >= 2 /\ s[2] \in Accidentals THEN 2
    ELSE 1

\* The pattern list with m tried before maj7?.
modifier_patterns_m_first == <<"m", "maj7?", "7", "digits", "sus", "altered", "bass">>

\* The names of modifier_patterns, in the order of the list.
modifier_patterns == <<"maj7?", "m", "7", "digits", "sus", "altered", "bass">>

\* pattern.match(s): the length of the match of one modifier pattern at the
\* start of s, 0 when there is none (no pattern matches the empty text).
PatternMatchLen(p, s) ==
    CASE p = "maj7?" ->
            IF StartsWith(s, <<"m", "a", "j">>)
            THEN (IF Len(s) >= 4 /\ s[4] = "7" THEN 4 ELSE 3)
            ELSE 0
      [] p = "m" -> IF StartsWith(s, <<"m">>) THEN 1 ELSE 0
      [] p = "7" -> IF StartsWith(s, <<"7">>) THEN 1 ELSE 0
      [] p = "digits" -> DigitRun(s)
      [] p = "sus" ->
            IF StartsWith(s, <<"s", "u", "s">>) /\ Len(s) >= 4 /\ s[4] \in Digits
            THEN 4 ELSE 0
      [] p = "altered" ->
            LET d == IF StartsWith(s, <<"+">>) THEN 1
                     ELSE IF StartsWith(s, <<"d", "i", "m">>) THEN 3
                     ELSE 0
            IN  IF d = 0 THEN 0
                ELSE IF Len(s) > d /\ s[d + 1] \in Digits THEN d + 1
                ELSE d
      [] p = "bass" ->
            IF StartsWith(s, <<"/">>) /\ ToneMatchLen(Tail(s)) > 0
            THEN 1 + ToneMatchLen(Tail(s)) ELSE 0

\* The converter of each pattern applied to its matched text m.
\* _parse_altered_modifier_match (io.py:84-85) is the converter of "altered".
ConvertMatch(p, m) ==
    CASE p = "maj7?" -> MajorSeventh
      [] p = "m" -> Minor
      [] p = "7" -> DominantSeventh
      [] p = "digits" -> AddedNote(IntOf(m))
      [] p = "sus" -> Suspended(IntOf(<<m[4]>>))
      [] p = "altered" ->
            LET d == IF m[1] = "+" THEN 1 ELSE 3
            IN  Altered(Take(m, d), IF Len(m) = d THEN 5 ELSE IntOf(Drop(m, d)))
      [] p = "bass" -> BassNote(Tail(m))

\* The index of the first pattern of modifier_patterns that matches at the
\* start of s, 0 when none does (the for ... else of io.py:118-126).
FirstMatchingPattern(s) ==
    IF \E k \in 1..Len(modifier_patterns) : PatternMatchLen(modifier_patterns[k], s) > 0
    THEN CHOOSE k \in 1..Len(modifier_patterns) :
            /\ PatternMatchLen(modifier_patterns[k], s) > 0
            /\ \A l \in 1..(k - 1) : PatternMatchLen(modifier_patterns[l], s) = 0
    ELSE 0

\* One pass of the while loop of parse_modifiers over a non-empty modif_str:
\* the modifier it yields, the text left, and whether the generator returns.
ModifierStep(s) ==
    LET k == FirstMatchingPattern(s)
    IN  IF k = 0
        THEN [modifier |-> GenericChordModifier(s), rest |-> s, returned |-> TRUE]
        ELSE LET n == PatternMatchLen(modifier_patterns[k], s)
             IN  [modifier |-> ConvertMatch(modifier_patterns[k], Take(s, n)),
                  rest |-> Drop(s, n), returned |-> FALSE]

\* list(parse_modifiers(modif_str)).
RECURSIVE parse_modifiers(_)
parse_modifiers(s) ==
    IF s = <<>> THEN <<>>
    ELSE LET step == ModifierStep(s)
         IN  IF step.returned THEN <<step.modifier>>
             ELSE <<step.modifier>> \o parse_modifiers(step.rest)

\* DefaultChordParser.parse.
parse(s) ==
    IF s = <<>> THEN SongParseError
    ELSE LET n == ToneMatchLen(s)
         IN  IF n = 0 THEN SongParseError
             ELSE Chord(Take(s, n), parse_modifiers(Drop(s, n)))

----------------------------------------------------------------------------
(* The run of DefaultChordParser.parse on one chord string, one loop pass  *)
(* of parse_modifiers per step, followed by the parse of the rendering of  *)
(* its result.                                                             *)

LatexIdle ==
    /\ latex_items = <<>>
    /\ latex_parsed = None
    /\ plain_parsed = None

NormIdle ==
    /\ heap = <<>>
    /\ next_oid = 1
    /\ song = [annotations |-> <<>>, items |-> <<>>]
    /\ npc = "idle"
    /\ copied = <<>>
    /\ linked = <<>>
    /\ result = None
    /\ result2 = None
    /\ before_fill = <<>>

PlainIdle ==
    /\ song_text = <<>>
    /\ n_parts = 0
    /\ ppc = "idle"
    /\ loaded = None
    /\ dumped = None
    /\ reloaded = None

AgamaIdle ==
    /\ agama_song = None
    /\ apc = "idle"
    /\ split = None
    /\ agama_dumped = None

DumpChordIdle ==
    /\ chord_dumped = None
    /\ chord_loaded = None

BodyIdle ==
    /\ body_text = <<>>
    /\ bpc = "idle"
    /\ parsed_parts = <<>>
    /\ body_segments = None

SongLatexIdle ==
    /\ latex_text = <<>>
    /\ n_chunks = 0
    /\ lpc = "idle"
    /\ latex_loaded = None
    /\ dump_heap = <<>>
    /\ dump_song = None
    /\ latex_dumped = None

InitChord ==
    /\ DumpChordIdle
    /\ BodyIdle
    /\ AgamaIdle
    /\ chord_str = <<>>
    /\ pc = "parse"
    /\ root = <<>>
    /\ modif_str = <<>>
    /\ modifiers = <<>>
    /\ parsed = None
    /\ reparsed = None
    /\ LatexIdle
    /\ NormIdle
    /\ PlainIdle
    /\ SongLatexIdle

\* The caller extends the chord string it is about to pass to parse.
TypeChar ==
    /\ pc = "parse"
    /\ Len(chord_str) < MaxChordLen
    /\ \E c \in ChordAlphabet : chord_str' = Append(chord_str, c)
    /\ UNCHANGED <<pc, root, modif_str, modifiers, parsed, reparsed, latexVars, normVars, plainVars, songLatexVars, agamaVars, dumpChordVars, bodyVars>>

\* io.py:108-113, up to the call of parse_modifiers.
ParseRoot ==
    /\ pc = "parse"
    /\ IF chord_str = <<>> \/ ToneMatchLen(chord_str) = 0
       THEN /\ parsed' = SongParseError
            /\ pc' = "raised"
            /\ UNCHANGED <<root, modif_str, agamaVars, dumpChordVars, bodyVars>>
       ELSE /\ root' = Take(chord_str, ToneMatchLen(chord_str))
            /\ modif_str' = Drop(chord_str, ToneMatchLen(chord_str))
            /\ pc' = "modifiers"
            /\ UNCHANGED parsed
    /\ UNCHANGED <<chord_str, modifiers, reparsed, latexVars, normVars, plainVars, songLatexVars, agamaVars, dumpChordVars, bodyVars>>

\* io.py:117-126: one pass of the while loop.
ParseModifiersStep ==
    /\ pc = "modifiers"
    /\ modif_str # <<>>
    /\ LET step == ModifierStep(modif_str)
       IN  /\ modifiers' = Append(modifiers, step.modifier)
           /\ modif_str' = step.rest
           /\ pc' = IF step.returned THEN "exhausted" ELSE "modifiers"
    /\ UNCHANGED <<chord_str, root, parsed, reparsed, latexVars, normVars, plainVars, songLatexVars, agamaVars, dumpChordVars, bodyVars>>

\* io.py:114: the generator is exhausted and parse returns the Chord.
ParseReturn ==
    /\ \/ pc = "exhausted"
       \/ pc = "modifiers" /\ modif_str = <<>>
    /\ parsed' = Chord(root, modifiers)
    /\ pc' = "returned"
    /\ UNCHANGED <<chord_str, root, modif_str, modifiers, reparsed, latexVars, normVars, plainVars, songLatexVars, agamaVars, dumpChordVars, bodyVars>>

\* parse(chord.to_string()) of the returned chord.
ParseRendered ==
    /\ pc = "returned"
    /\ reparsed' = parse(ChordToString(parsed))
    /\ pc' = "reparsed"
    /\ UNCHANGED <<chord_str, root, modif_str, modifiers, parsed, latexVars, normVars, plainVars, songLatexVars, agamaVars, dumpChordVars, bodyVars>>

NextChord == TypeChar \/ ParseRoot \/ ParseModifiersStep \/ ParseReturn \/ ParseRendered

SpecChord == InitChord /\ [][NextChord]_vars

\* The stepwise run returns what the one-call parse computes.
StepwiseParseAgrees ==
    /\ pc \in {"returned", "reparsed"} => parsed = parse(chord_str)
    /\ pc = "raised" => parse(chord_str) = SongParseError

----------------------------------------------------------------------------
(* ModifiedSongsLatexChordParser (io.py:129-144). A LaTeX chord text is a   *)
(* sequence of characters in which each command name (\shrp, \hidx, \didx) *)
(* is one element.                                                         *)

SHRP == "\\shrp"
HIDX == "\\hidx"
DIDX == "\\didx"

\* pattern.sub("#", s) for the pattern \\shrp(\{})? (io.py:131).
RECURSIVE SubstituteShrp(_)
SubstituteShrp(s) ==
    IF s = <<>> THEN <<>>
    ELSE IF Head(s) = SHRP
        THEN IF Len(s) >= 3 /\ s[2] = "{" /\ s[3] = "}"
             THEN <<"#">> \o SubstituteShrp(Drop(s, 3))
             ELSE <<"#">> \o SubstituteShrp(Tail(s))
    ELSE <<Head(s)>> \o SubstituteShrp(Tail(s))

\* The number of leading characters of s matched by [^}\]]+ : those that are
\* neither } nor ].
RECURSIVE IndexContentRun(_)
IndexContentRun(s) ==
    IF s # <<>> /\ Head(s) \notin {"}", "]"} THEN 1 + IndexContentRun(Tail(s)) ELSE 0

\* The length of the match of \\cmd\{([^}\]]+)} at the start of s, 0 when
\* there is none.
IndexMatchLen(cmd, s) ==
    IF Len(s) >= 2 /\ s[1] = cmd /\ s[2] = "{"
    THEN LET n == IndexContentRun(Drop(s, 2))
         IN  IF n >= 1 /\ Len(s) >= n + 3 /\ s[n + 3] = "}" THEN n + 3 ELSE 0
    ELSE 0

\* pattern.sub(lambda m: m.group(1), s) for the pattern \\cmd\{([^}\]]+)}
\* (io.py:132-133): matches are found left to right and do not overlap.
RECURSIVE SubstituteIndex(_, _)
SubstituteIndex(cmd, s) ==
    IF s = <<>> THEN <<>>
    ELSE LET n == IndexMatchLen(cmd, s)
         IN  IF n > 0
             THEN SubSeq(s, 3, n - 1) \o SubstituteIndex(cmd, Drop(s, n))
             ELSE <<Head(s)>> \o SubstituteIndex(cmd, Tail(s))

\* The substitutions without the one for \didx.
SubstituteAllWithoutDidx(s) == SubstituteIndex(HIDX, SubstituteShrp(s))

\* The three substitutions in the order of the list (io.py:141-142).
SubstituteAll(s) == SubstituteIndex(DIDX, SubstituteIndex(HIDX, SubstituteShrp(s)))

\* ModifiedSongsLatexChordParser.parse.
LatexChordParse(s) == parse(SubstituteAll(s))

----------------------------------------------------------------------------
(* LaTeX-notation chords and their plain notation. A chord is a sequence   *)
(* of items: a plain character, a sharp, or an index group \hidx{x} or      *)
(* \didx{x} whose content x is a sequence of plain characters and sharps.  *)

\* Most items of a LaTeX-notation chord.
MaxLatexItems == 2

\* Most atoms in the content of an index group.
MaxIndexLen == 2

\* The plain characters LaTeX-notation chords are drawn from.
LatexChars == {"C", "7"}

Sharp == [cmd |-> "shrp", content |-> <<>>]
PlainChar(c) == [cmd |-> "char", content |-> <<c>>]
IndexGroup(cmd, content) == [cmd |-> cmd, content |-> content]

Atoms == {PlainChar(c) : c \in LatexChars} \cup {Sharp}

RECURSIVE AtomSeqs(_)
AtomSeqs(n) ==
    IF n = 0 THEN {<<>>}
    ELSE LET shorter == AtomSeqs(n - 1)
         IN  shorter \cup {Append(s, a) : s \in shorter, a \in Atoms}

LatexItemChoices ==
    Atoms \cup {IndexGroup(cmd, x) : cmd \in {"hidx", "didx"}, x \in AtomSeqs(MaxIndexLen)}

\* The LaTeX text of a chord, as the test table of test_io.py writes it.
RECURSIVE LatexText(_)
LatexText(items) ==
    IF items = <<>> THEN <<>>
    ELSE LET it == Head(items)
             text == CASE it.cmd = "char" -> it.content
                       [] it.cmd = "shrp" -> <<SHRP, "{", "}">>
                       [] it.cmd = "hidx" -> <<HIDX, "{">> \o LatexText(it.content) \o <<"}">>
                       [] it.cmd = "didx" -> <<DIDX, "{">> \o LatexText(it.content) \o <<"}">>
         IN  text \o LatexText(Tail(items))

\* The plain notation of the same chord: # for a sharp, x for an index
\* group with content x.
RECURSIVE PlainText(_)
PlainText(items) ==
    IF items = <<>> THEN <<>>
    ELSE LET it == Head(items)
             text == CASE it.cmd = "char" -> it.content
                       [] it.cmd = "shrp" -> <<"#">>
                       [] it.cmd \in {"hidx", "didx"} -> PlainText(it.content)
         IN  text \o PlainText(Tail(items))

ChordIdle ==
    /\ chord_str = <<>>
    /\ pc = "idle"
    /\ root = <<>>
    /\ modif_str = <<>>
    /\ modifiers = <<>>
    /\ parsed = None
    /\ reparsed = None

InitLatexChord ==
    /\ DumpChordIdle
    /\ BodyIdle
    /\ AgamaIdle
    /\ ChordIdle
    /\ LatexIdle
    /\ NormIdle
    /\ PlainIdle
    /\ SongLatexIdle

\* The caller extends the chord it is about to write in both notations.
AddLatexItem ==
    /\ latex_parsed = None
    /\ Len(latex_items) < MaxLatexItems
    /\ \E it \in LatexItemChoices : latex_items' = Append(latex_items, it)
    /\ UNCHANGED <<latex_parsed, plain_parsed, chordVars, normVars, plainVars, songLatexVars, agamaVars, dumpChordVars, bodyVars>>

\* test_modif_songs_latex_chord_parser (test_io.py:35-36): the LaTeX text
\* goes through ModifiedSongsLatexChordParser, the plain text through
\* DefaultChordParser.
ParseBothNotations ==
    /\ latex_parsed = None
    /\ latex_parsed' = LatexChordParse(LatexText(latex_items))
    /\ plain_parsed' = parse(PlainText(latex_items))
    /\ UNCHANGED <<latex_items, chordVars, normVars, plainVars, songLatexVars, agamaVars, dumpChordVars, bodyVars>>

NextLatexChord == AddLatexItem \/ ParseBothNotations

SpecLatexChord == InitLatexChord /\ [][NextLatexChord]_vars

----------------------------------------------------------------------------
(* The song model (model.py:17-51, 144-376). Strophes and the annotations  *)
(* that stand among the items are objects of the heap: a list of items is  *)
(* a list of object ids, so that two places can hold the same object.      *)
(* Segments and top-level annotations carry their identity in oid.         *)

PlainSegment(text, oid) ==
    [cls |-> "PlainSegment", chord |-> None, text |-> text, oid |-> oid]
ChordedSegment(chord, text, oid) ==
    [cls |-> "ChordedSegment", chord |-> chord, text |-> text, oid |-> oid]

NumberedStropheMark(number) ==
    [cls |-> "NumberedStropheMark", number |-> number, letter |-> ""]
LetteredStropheMark(letter) ==
    [cls |-> "LetteredStropheMark", number |-> 0, letter |-> letter]
ChorusMark == [cls |-> "ChorusMark", number |-> 0, letter |-> ""]
CodaMark == [cls |-> "CodaMark", number |-> 0, letter |-> ""]

Strophe(mark, segments) ==
    [cls |-> "Strophe", mark |-> mark, segments |-> segments,
     repeated_strophe |-> 0, annot |-> None]
RepeatStropheWithSameMark(mark, segments) ==
    [cls |-> "RepeatStropheWithSameMark", mark |-> mark, segments |-> segments,
     repeated_strophe |-> 0, annot |-> None]
\* A StropheRepeat owns neither mark nor segments: both are read through.
StropheRepeat(repeated_strophe) ==
    [cls |-> "StropheRepeat", mark |-> None, segments |-> <<>>,
     repeated_strophe |-> repeated_strophe, annot |-> None]
\* An annotation standing among the items.
AnnotationItem(annot) ==
    [cls |-> "Annotation", mark |-> None, segments |-> <<>>,
     repeated_strophe |-> 0, annot |-> annot]

TitleAnnotation(title, oid) == [cls |-> "TitleAnnotation", value |-> title, oid |-> oid]
\* io.py:68-69: a ProcessingInstruction without fields and without __eq__.
TurnChordsOff(oid) == [cls |-> "TurnChordsOff", value |-> <<>>, oid |-> oid]
\* io.py:383-385.
RepeatCount(n_repeats) == [cls |-> "RepeatCount", value |-> n_repeats, oid |-> 0]

\* The classes whose instances compare by value (dataclasses); instances of
\* the others are equal only to themselves.
ValueEqualClasses == {"TitleAnnotation", "RepeatCount"}

\* isinstance(item, Strophe).
IsStrophe(obj) == obj.cls \in {"Strophe", "RepeatStropheWithSameMark", "StropheRepeat"}

\* The object whose mark and segments the object h shows: itself, or for a
\* StropheRepeat the object its repeated_strophe shows (model.py:299-305).
RECURSIVE ShownObject(_, _)
ShownObject(h, id) ==
    IF h[id].cls = "StropheRepeat" THEN ShownObject(h, h[id].repeated_strophe) ELSE id

mark_of(h, id) == h[ShownObject(h, id)].mark
segments_of(h, id) == h[ShownObject(h, id)].segments

Max(S) == CHOOSE x \in S : \A y \in S : y <= x
Min(S) == CHOOSE x \in S : \A y \in S : x <= y

\* s[:k] of Python, for any integer k.
SliceTo(s, k) ==
    IF k < 0 THEN (IF Len(s) + k > 0 THEN Take(s, Len(s) + k) ELSE <<>>)
    ELSE IF k > Len(s) THEN s ELSE Take(s, k)

\* sub in text.
Contains(text, sub) ==
    \E p \in 0..(Len(text) - Len(sub)) : SubSeq(text, p + 1, p + Len(sub)) = sub

\* text.find(sub): the first index, counted from 0, or -1.
Find(text, sub) ==
    IF Contains(text, sub)
    THEN Min({p \in 0..(Len(text) - Len(sub)) : SubSeq(text, p + 1, p + Len(sub)) = sub})
    ELSE -1

\* The positions, from i on, of the items that are strophes, in order.
RECURSIVE StrophePositionsFrom(_, _, _)
StrophePositionsFrom(h, items, i) ==
    IF i > Len(items) THEN <<>>
    ELSE IF IsStrophe(h[items[i]]) THEN <<i>> \o StrophePositionsFrom(h, items, i + 1)
    ELSE StrophePositionsFrom(h, items, i + 1)

StrophePositions(h, items) == StrophePositionsFrom(h, items, 1)

----------------------------------------------------------------------------
(* copy.deepcopy(self.items) (model.py:381): every object reachable from   *)
(* the list is copied once, so what was shared in the original is shared   *)
(* in the copy, and nothing of the copy is an object of the original.      *)

RECURSIVE ReachableFrom(_, _)
ReachableFrom(h, ids) ==
    LET more == ids \cup {h[id].repeated_strophe : id \in {x \in ids : h[x].cls = "StropheRepeat"}}
    IN  IF more = ids THEN ids ELSE ReachableFrom(h, more)

RankIn(S, x) == Cardinality({y \in S : y < x}) + 1

\* The elements of a set of integers in increasing order.
RECURSIVE Sorted(_)
Sorted(S) == IF S = {} THEN <<>> ELSE <<Min(S)>> \o Sorted(S \ {Min(S)})

DeepCopyItems(h, oid, items) ==
    LET R == ReachableFrom(h, {items[k] : k \in 1..Len(items)})
        O == UNION {{h[id].segments[k].oid : k \in 1..Len(h[id].segments)} : id \in R}
        new_id(id) == Len(h) + RankIn(R, id)
        new_oid(o) == oid + RankIn(O, o) - 1
        copy_of(id) ==
            [h[id] EXCEPT
                !.segments = [k \in 1..Len(h[id].segments) |->
                                [h[id].segments[k] EXCEPT !.oid = new_oid(@)]],
                !.repeated_strophe = IF @ = 0 THEN 0 ELSE new_id(@)]
        order == Sorted(R)
    IN  [heap |-> h \o [k \in 1..Len(order) |-> copy_of(order[k])],
         next_oid |-> oid + Cardinality(O),
         items |-> [k \in 1..Len(items) |-> new_id(items[k])]]

\* copy.deepcopy(self.annotations) (model.py:380).
DeepCopyAnnotations(oid, annotations) ==
    [next_oid |-> oid + Len(annotations),
     annotations |-> [k \in 1..Len(annotations) |->
                        [annotations[k] EXCEPT !.oid = oid + k - 1]]]

\* A copy of the list alone: the same objects in a new list.
ShallowCopyItems(h, oid, items) == [heap |-> h, next_oid |-> oid, items |-> items]

\* The copy normalized() works on.
CopyItems(h, oid, items) == DeepCopyItems(h, oid, items)

----------------------------------------------------------------------------
(* Song._link_strophe_repeats (model.py:384-407).                          *)

ValueError == [raised |-> "ValueError"]
UnboundLocalError == [raised |-> "UnboundLocalError"]
AttributeError == [raised |-> "AttributeError"]

Pass(h, oid, items, raised) ==
    [heap |-> h, next_oid |-> oid, items |-> items, raised |-> raised]

\* The scan from the first position instead.
LinkPositionFirst(h, items, i) ==
    LET J == {j \in 1..(i - 1) :
                /\ IsStrophe(h[items[j]])
                /\ mark_of(h, items[j]) = h[items[i]].mark}
    IN  IF J = {} THEN 0 ELSE Min(J)

\* The scan that ends at the placeholder itself when it finds no strophe.
LinkPositionOrSelf(h, items, i) ==
    LET J == {j \in 1..(i - 1) :
                /\ IsStrophe(h[items[j]])
                /\ mark_of(h, items[j]) = h[items[i]].mark}
    IN  IF J = {} THEN i ELSE Max(J)

\* The strophe a placeholder at position i is linked to: the positions
\* before i are scanned in reverse for a Strophe of equal mark
\* (model.py:389-391); 0 when there is none.
LinkPosition(h, items, i) ==
    LET J == {j \in 1..(i - 1) :
                /\ IsStrophe(h[items[j]])
                /\ mark_of(h, items[j]) = h[items[i]].mark}
    IN  IF J = {} THEN 0 ELSE Max(J)

\* The loop over items from position i on; seg is the local variable seg of
\* the function, None while nothing has been assigned to it.
RECURSIVE LinkFrom(_, _, _, _, _, _)
LinkFrom(h, oid, items, i, linked_items, seg) ==
    IF i > Len(items) THEN Pass(h, oid, linked_items, None)
    ELSE IF h[items[i]].cls # "RepeatStropheWithSameMark"
        THEN LinkFrom(h, oid, items, i + 1, Append(linked_items, items[i]), seg)
    ELSE IF LinkPosition(h, items, i) = 0 THEN Pass(h, oid, linked_items, ValueError)
    ELSE
        LET item == h[items[i]]
            link_item == items[LinkPosition(h, items, i)]
            link_segments == segments_of(h, link_item)
        IN  IF item.segments = <<>>
            THEN LinkFrom(Append(h, StropheRepeat(link_item)), oid, items, i + 1,
                          Append(linked_items, Len(h) + 1), seg)
            ELSE
                LET first_segment_text == item.segments[1].text
                    K == {k \in 1..Len(link_segments) :
                            Contains(link_segments[k].text, first_segment_text)}
                    \* where the inner loop stops: at the first segment that
                    \* holds the text, else at the last one; an empty list
                    \* assigns neither its i nor seg
                    k == IF K # {} THEN Min(K) ELSE Len(link_segments)
                    inner_seg == IF link_segments = <<>> THEN seg ELSE link_segments[k]
                    inner_i == IF link_segments = <<>> THEN i - 1 ELSE k - 1
                IN  IF inner_seg = None THEN Pass(h, oid, linked_items, UnboundLocalError)
                    ELSE
                        LET break_segment ==
                                [inner_seg EXCEPT
                                    !.text = SliceTo(@, Find(@, first_segment_text)),
                                    !.oid = oid]
                            result_segments ==
                                SliceTo(link_segments, inner_i) \o <<break_segment>> \o item.segments
                        IN  LinkFrom(Append(h, Strophe(item.mark, result_segments)), oid + 1,
                                     items, i + 1, Append(linked_items, Len(h) + 1), inner_seg)

_link_strophe_repeats(h, oid, items) == LinkFrom(h, oid, items, 1, <<>>, None)

----------------------------------------------------------------------------
(* Song._infer_chorus_repetition (model.py:409-420).                       *)

\* The variant that inlays after the first verse only.
InlayOnce(items, repeat_chorus) ==
    IF items = <<>> THEN <<>> ELSE <<Head(items), repeat_chorus>> \o Tail(items)

\* [item for strophe in items[2:] for item in (strophe, repeat_chorus)]
RECURSIVE Inlay(_, _)
Inlay(items, repeat_chorus) ==
    IF items = <<>> THEN <<>>
    ELSE <<Head(items), repeat_chorus>> \o Inlay(Tail(items), repeat_chorus)

_infer_chorus_repetition(h, oid, items) ==
    LET positions == StrophePositions(h, items)
        strophe_types == [k \in 1..Len(positions) |-> mark_of(h, items[positions[k]]).cls]
        type_pattern == [k \in 1..Len(strophe_types) |->
                            IF k = 2 THEN "ChorusMark" ELSE "NumberedStropheMark"]
    IN  IF Len(strophe_types) <= 2 \/ Len(strophe_types) < Len(items)
        THEN Pass(h, oid, items, None)
        ELSE IF strophe_types = type_pattern
        THEN Pass(Append(h, StropheRepeat(items[2])), oid,
                  Take(items, 2) \o Inlay(Drop(items, 2), Len(h) + 1), None)
        ELSE Pass(h, oid, items, None)

----------------------------------------------------------------------------
(* Song._recognize_codas (model.py:444-451).                               *)

\* letter_counts["C"] == 1: the letter C occurs once, whatever else occurs.
LetterCountOfCIsOne(h, items) ==
    LET positions == StrophePositions(h, items)
    IN  Cardinality({k \in 1..Len(positions) :
                        mark_of(h, items[positions[k]]) = LetteredStropheMark("C")}) = 1

\* letter_counts == {"C": 1}: the letters of the lettered marks, with their
\* counts, are the letter C once and nothing else.
LetterCountsAreOneC(h, items) ==
    LET positions == StrophePositions(h, items)
        lettered == {k \in 1..Len(positions) :
                        mark_of(h, items[positions[k]]).cls = "LetteredStropheMark"}
    IN  /\ Cardinality(lettered) = 1
        /\ \A k \in lettered : mark_of(h, items[positions[k]]).letter = "C"

_recognize_codas(h, oid, items) ==
    LET positions == StrophePositions(h, items)
        last == items[positions[Len(positions)]]
    IN  IF /\ LetterCountsAreOneC(h, items)
           /\ mark_of(h, last) = LetteredStropheMark("C")
        THEN \* a StropheRepeat has no setter for mark
             IF h[last].cls = "StropheRepeat" THEN Pass(h, oid, items, AttributeError)
             ELSE Pass([h EXCEPT ![last].mark = CodaMark], oid, items, None)
        ELSE Pass(h, oid, items, None)

----------------------------------------------------------------------------
(* Song._fill_initial_plain_segments (model.py:422-442).                   *)

any_chorded(segments) ==
    \E k \in 1..Len(segments) : segments[k].cls = "ChordedSegment"

can_replace(h, prev_strophe, cur_strophe) ==
    LET cur == segments_of(h, cur_strophe)
        prev == segments_of(h, prev_strophe)
    IN  /\ cur # <<>>
        /\ cur[1].cls = "PlainSegment"
        /\ any_chorded(cur)
        /\ prev # <<>>
        /\ prev[Len(prev)].cls = "ChordedSegment"

\* The list replacements: pairs of an item position and the new segment.
RECURSIVE ReplacementsFrom(_, _, _, _, _)
ReplacementsFrom(h, oid, items, positions, k) ==
    IF k >= Len(positions) THEN <<>>
    ELSE LET prev_strophe == items[positions[k]]
             cur_strophe == items[positions[k + 1]]
             prev == segments_of(h, prev_strophe)
             cur == segments_of(h, cur_strophe)
         IN  IF can_replace(h, prev_strophe, cur_strophe)
             THEN <<[item_i |-> positions[k + 1],
                     repl |-> ChordedSegment(prev[Len(prev)].chord, cur[1].text, oid)]>>
                  \o ReplacementsFrom(h, oid + 1, items, positions, k + 1)
             ELSE ReplacementsFrom(h, oid, items, positions, k + 1)

\* items[item_i].segments[0] = repl, one replacement after the other; for a
\* StropheRepeat the list written to is the list of the strophe it shows.
RECURSIVE ApplyReplacements(_, _, _)
ApplyReplacements(h, items, replacements) ==
    IF replacements = <<>> THEN h
    ELSE LET r == Head(replacements)
             owner == ShownObject(h, items[r.item_i])
         IN  ApplyReplacements([h EXCEPT ![owner].segments[1] = r.repl],
                               items, Tail(replacements))

_fill_initial_plain_segments(h, oid, items) ==
    LET replacements == ReplacementsFrom(h, oid, items, StrophePositions(h, items), 1)
    IN  Pass(ApplyReplacements(h, items, replacements), oid + Len(replacements), items, None)

----------------------------------------------------------------------------
(* Song.normalized (model.py:378-382).                                     *)

Song(annotations, items) == [annotations |-> annotations, items |-> items]

\* The steps of the chain of calls of model.py:381 after the linking: each
\* runs unless an earlier one has raised.
ThenInferChorusRepetition(pass) ==
    IF pass.raised # None THEN pass
    ELSE _infer_chorus_repetition(pass.heap, pass.next_oid, pass.items)

ThenRecognizeCodas(pass) ==
    IF pass.raised # None THEN pass
    ELSE _recognize_codas(pass.heap, pass.next_oid, pass.items)

ThenFillInitialPlainSegments(pass) ==
    IF pass.raised # None THEN pass
    ELSE _fill_initial_plain_segments(pass.heap, pass.next_oid, pass.items)

\* What a call leaves: the heap and the identity counter after it, its
\* outcome (the new Song or the error raised), the lists its first two
\* steps produced, and the segments the items showed when the last step
\* began.
Returned(annotations, copy, link, coda, fill) ==
    [heap |-> fill.heap,
     next_oid |-> fill.next_oid,
     copied |-> copy.items,
     linked |-> IF link.raised # None THEN <<>> ELSE link.items,
     before_fill |-> IF coda.raised # None THEN <<>>
                     ELSE [k \in 1..Len(coda.items) |-> segments_of(coda.heap, coda.items[k])],
     outcome |-> IF fill.raised # None THEN fill.raised
                 ELSE Song(annotations, fill.items)]

\* One call of normalized() on the song s in the heap h.
normalized(h, oid, s) ==
    LET annots == DeepCopyAnnotations(oid, s.annotations)
        copy == CopyItems(h, annots.next_oid, s.items)
        link == _link_strophe_repeats(copy.heap, copy.next_oid, copy.items)
        coda == ThenRecognizeCodas(ThenInferChorusRepetition(link))
    IN  Returned(annots.annotations, copy, link, coda, ThenFillInitialPlainSegments(coda))

IsSong(outcome) == "items" \in DOMAIN outcome

----------------------------------------------------------------------------
(* Python equality of songs (the generated __eq__ of the dataclasses).     *)

\* The segments without their identity: dataclass equality is by field.
SegmentValues(segments) ==
    [k \in 1..Len(segments) |->
        [cls |-> segments[k].cls, chord |-> segments[k].chord, text |-> segments[k].text]]

\* What an item is compared by: its class and fields; a StropheRepeat by
\* the mark and segments it shows and by its repeated strophe.
RECURSIVE ItemValue(_, _)
ItemValue(h, id) ==
    CASE h[id].cls \in {"Strophe", "RepeatStropheWithSameMark"} ->
            [cls |-> h[id].cls, mark |-> h[id].mark,
             segments |-> SegmentValues(h[id].segments)]
      [] h[id].cls = "StropheRepeat" ->
            [cls |-> h[id].cls, mark |-> mark_of(h, id),
             segments |-> SegmentValues(segments_of(h, id)),
             repeated_strophe |-> ItemValue(h, h[id].repeated_strophe)]
      [] h[id].cls = "Annotation" ->
            IF h[id].annot.cls \in ValueEqualClasses
            THEN [cls |-> h[id].annot.cls, value |-> h[id].annot.value]
            ELSE [cls |-> h[id].annot.cls, id |-> id]

\* a == b for two annotations of a Song's annotations.
AnnotationsEqual(a, b) ==
    \/ a.oid = b.oid
    \/ a.cls = b.cls /\ a.cls \in ValueEqualClasses /\ a.value = b.value

\* a == b for two Songs whose objects are in the heap h.
SongsEqual(h, a, b) ==
    /\ Len(a.annotations) = Len(b.annotations)
    /\ \A k \in 1..Len(a.annotations) : AnnotationsEqual(a.annotations[k], b.annotations[k])
    /\ Len(a.items) = Len(b.items)
    /\ \A k \in 1..Len(a.items) :
          a.items[k] = b.items[k] \/ ItemValue(h, a.items[k]) = ItemValue(h, b.items[k])

----------------------------------------------------------------------------
(* The songs normalized() is applied to, built item by item.               *)

MaxItems == 4

ChordC == Chord(<<"C">>, <<>>)
ChordG == Chord(<<"G">>, <<>>)

\* Lists of segments, before their objects are created.
VerseSegments ==
    {<<PlainSegment(<<"a">>, 0), ChordedSegment(ChordC, <<"b">>, 0)>>,
     <<ChordedSegment(ChordG, <<"b">>, 0)>>}

ItemChoices ==
    {Strophe(NumberedStropheMark(1), s) : s \in VerseSegments}
    \cup {Strophe(ChorusMark, <<PlainSegment(<<"a">>, 0), ChordedSegment(ChordC, <<"a", "b">>, 0)>>),
          Strophe(ChorusMark, <<ChordedSegment(ChordG, <<"c", "a">>, 0)>>),
          Strophe(ChorusMark, <<>>),
          Strophe(LetteredStropheMark("A"), <<ChordedSegment(ChordG, <<"b">>, 0)>>),
          Strophe(LetteredStropheMark("C"), <<ChordedSegment(ChordG, <<"b">>, 0)>>)}
    \cup {RepeatStropheWithSameMark(ChorusMark, <<>>),
          RepeatStropheWithSameMark(NumberedStropheMark(1), <<>>),
          RepeatStropheWithSameMark(ChorusMark, <<PlainSegment(<<"b">>, 0)>>)}
    \cup {AnnotationItem(RepeatCount(2))}

\* The object of a choice, its segments created with identities from oid on.
NewObject(choice, oid) ==
    [choice EXCEPT !.segments = [k \in 1..Len(choice.segments) |->
                                    [choice.segments[k] EXCEPT !.oid = oid + k - 1]]]

InitNorm ==
    /\ DumpChordIdle
    /\ BodyIdle
    /\ AgamaIdle
    /\ ChordIdle
    /\ LatexIdle
    /\ PlainIdle
    /\ SongLatexIdle
    /\ heap = <<>>
    /\ next_oid = 2
    /\ song = Song(<<TitleAnnotation(<<"t">>, 1)>>, <<>>)
    /\ npc = "build"
    /\ copied = <<>>
    /\ linked = <<>>
    /\ result = None
    /\ result2 = None
    /\ before_fill = <<>>

\* \chordsoff ahead of the first verse: the loader stores the instruction
\* among the annotations of the song (io.py:445-471).
AddTurnChordsOff ==
    /\ npc = "build"
    /\ song.items = <<>>
    /\ Len(song.annotations) = 1
    /\ song' = [song EXCEPT !.annotations = Append(@, TurnChordsOff(next_oid))]
    /\ next_oid' = next_oid + 1
    /\ UNCHANGED <<heap, npc, copied, linked, result, result2, before_fill, chordVars, latexVars, plainVars, songLatexVars, agamaVars, dumpChordVars, bodyVars>>

AddItem ==
    /\ npc = "build"
    /\ Len(song.items) < MaxItems
    /\ \E choice \in ItemChoices :
          /\ heap' = Append(heap, NewObject(choice, next_oid))
          /\ next_oid' = next_oid + Len(choice.segments)
    /\ song' = [song EXCEPT !.items = Append(@, Len(heap) + 1)]
    /\ UNCHANGED <<npc, copied, linked, result, result2, before_fill, chordVars, latexVars, plainVars, songLatexVars, agamaVars, dumpChordVars, bodyVars>>

\* \repchorus{n}: the loader puts one placeholder object n times into the
\* items (io.py:679-688).
AddSameItem ==
    /\ npc = "build"
    /\ song.items # <<>>
    /\ Len(song.items) < MaxItems
    /\ heap[song.items[Len(song.items)]].cls = "RepeatStropheWithSameMark"
    /\ song' = [song EXCEPT !.items = Append(@, @[Len(@)])]
    /\ UNCHANGED <<heap, next_oid, npc, copied, linked, result, result2, before_fill, chordVars, latexVars, plainVars, songLatexVars, agamaVars, dumpChordVars, bodyVars>>

\* result = song.normalized()
Normalize ==
    /\ npc = "build"
    /\ LET n == normalized(heap, next_oid, song)
       IN  /\ heap' = n.heap
           /\ next_oid' = n.next_oid
           /\ copied' = n.copied
           /\ linked' = n.linked
           /\ result' = n.outcome
           /\ before_fill' = n.before_fill
    /\ npc' = "normalized"
    /\ UNCHANGED <<song, result2, chordVars, latexVars, plainVars, songLatexVars, agamaVars, dumpChordVars, bodyVars>>

\* result2 = result.normalized()
NormalizeAgain ==
    /\ npc = "normalized"
    /\ IsSong(result)
    /\ LET n == normalized(heap, next_oid, result)
       IN  /\ heap' = n.heap
           /\ next_oid' = n.next_oid
           /\ result2' = n.outcome
    /\ npc' = "renormalized"
    /\ UNCHANGED <<song, copied, linked, result, before_fill, chordVars, latexVars, plainVars, songLatexVars, agamaVars, dumpChordVars, bodyVars>>

NextNorm ==
    \/ AddTurnChordsOff
    \/ AddItem
    \/ AddSameItem
    \/ Normalize
    \/ NormalizeAgain

SpecNorm == InitNorm /\ [][NextNorm]_vars

----------------------------------------------------------------------------
(* Text functions of Python used by the song formats.                      *)

\* The characters \s matches.
WhitespaceChars == {" ", "\t", "\n", "\r"}

IndexError == [raised |-> "IndexError"]

\* str.isspace() for a text that is not empty.
IsSpace(s) == \A k \in 1..Len(s) : s[k] \in WhitespaceChars

\* The number of leading characters of s that are in the set chars.
RECURSIVE LeadingRun(_, _)
LeadingRun(s, chars) ==
    IF s # <<>> /\ Head(s) \in chars THEN 1 + LeadingRun(Tail(s), chars) ELSE 0

\* The number of trailing characters of s that are in the set chars.
RECURSIVE TrailingRun(_, _)
TrailingRun(s, chars) ==
    IF s # <<>> /\ s[Len(s)] \in chars
    THEN 1 + TrailingRun(Take(s, Len(s) - 1), chars) ELSE 0

\* s.lstrip(chars), s.rstrip(chars), s.strip().
LStrip(s, chars) == Drop(s, LeadingRun(s, chars))
RStrip(s, chars) == Take(s, Len(s) - TrailingRun(s, chars))
Strip(s) == LStrip(RStrip(s, WhitespaceChars), WhitespaceChars)

\* s.removesuffix(suffix).
RemoveSuffix(s, suffix) ==
    IF Len(s) >= Len(suffix) /\ Drop(s, Len(s) - Len(suffix)) = suffix
    THEN Take(s, Len(s) - Len(suffix)) ELSE s

\* text.count(sub): the occurrences that do not overlap, from the left.
RECURSIVE Count(_, _)
Count(text, sub) ==
    IF ~Contains(text, sub) THEN 0
    ELSE 1 + Count(Drop(text, Find(text, sub) + Len(sub)), sub)

\* text.split(sub).
RECURSIVE Split(_, _)
Split(text, sub) ==
    IF ~Contains(text, sub) THEN <<text>>
    ELSE <<Take(text, Find(text, sub))>> \o Split(Drop(text, Find(text, sub) + Len(sub)), sub)

\* text.split(sub, maxsplit=1).
SplitOnce(text, sub) ==
    IF ~Contains(text, sub) THEN <<text>>
    ELSE <<Take(text, Find(text, sub)), Drop(text, Find(text, sub) + Len(sub))>>

\* text.split(maxsplit=1): the first word and what follows the whitespace
\* after it.
SplitFirstWord(text) ==
    LET s == LStrip(text, WhitespaceChars)
        n == LeadingRun(s, {s[k] : k \in 1..Len(s)} \ WhitespaceChars)
        rest == LStrip(Drop(s, n), WhitespaceChars)
    IN  IF s = <<>> THEN <<>>
        ELSE IF rest = <<>> THEN <<Take(s, n)>>
        ELSE <<Take(s, n), rest>>

\* sep.join(parts).
RECURSIVE Join(_, _)
Join(parts, sep) ==
    IF parts = <<>> THEN <<>>
    ELSE IF Len(parts) = 1 THEN parts[1]
    ELSE parts[1] \o sep \o Join(Tail(parts), sep)

\* n spaces.
Spaces(n) == [k \in 1..n |-> " "]

----------------------------------------------------------------------------
(* DefaultFormat.loads (io.py:147-251).                                    *)

AuthorAnnotation(name, oid) == [cls |-> "AuthorAnnotation", value |-> name, oid |-> oid]
EmptyStropheMark == [cls |-> "EmptyStropheMark", number |-> 0, letter |-> ""]

heading_markers == <<<<" ", "-", " ">>, <<":", " ">>>>
strophe_mark_delimiters == <<<<".">>, <<":">>>>
chord_start_mark == <<"[">>
chord_end_mark == <<"]">>
untitled_title == <<"<", "U", "n", "t", "i", "t", "l", "e", "d", ">">>
heading_indent == 8

\* What a function returns, as against the error it raises.
Returns(value) == [value |-> value]
IsRaised(outcome) == "raised" \in DOMAIN outcome

\* Where the first match of part_separator_pattern, \n\s*\n, begins and
\* ends in text: a newline, and the last newline of the whitespace that
\* follows it; <<0, 0>> when there is none.
FirstPartSeparator(text) ==
    LET End(p) == Max({q \in p..(p + LeadingRun(Drop(text, p - 1), WhitespaceChars) - 1) :
                            text[q] = "\n"})
        P == {p \in 1..Len(text) : text[p] = "\n" /\ End(p) > p}
    IN  IF P = {} THEN <<0, 0>> ELSE <<Min(P), End(Min(P))>>

\* part_separator_pattern.split(text)
RECURSIVE SplitAtPartSeparators(_)
SplitAtPartSeparators(text) ==
    LET m == FirstPartSeparator(text)
    IN  IF m[1] = 0 THEN <<text>>
        ELSE <<Take(text, m[1] - 1)>> \o SplitAtPartSeparators(Drop(text, m[2]))

\* The members of parts that are neither empty nor blank, trimmed.
RECURSIVE TrimmedParts(_)
TrimmedParts(parts) ==
    IF parts = <<>> THEN <<>>
    ELSE IF Head(parts) = <<>> \/ IsSpace(Head(parts)) THEN TrimmedParts(Tail(parts))
    ELSE <<LStrip(RStrip(Head(parts), WhitespaceChars), {"\n"})>> \o TrimmedParts(Tail(parts))

_split_song_parts(text) == TrimmedParts(SplitAtPartSeparators(text))

\* The body of the loop of _try_parse_heading for one marker: the
\* annotations, <<>> to go on with the next marker, or the ValueError of the
\* unpacking of anything but two pieces.
HeadingByMarker(line, marker) ==
    IF ~Contains(line, marker) \/ Count(line, marker) > 1 THEN Returns(<<>>)
    ELSE LET pieces == Split(Strip(line), marker)
         IN  IF Len(pieces) # 2 THEN ValueError
             ELSE Returns(<<AuthorAnnotation(Strip(pieces[1]), 0),
                            TitleAnnotation(Strip(pieces[2]), 0)>>)

_try_parse_heading(line) ==
    IF HeadingByMarker(line, heading_markers[1]) # Returns(<<>>)
    THEN HeadingByMarker(line, heading_markers[1])
    ELSE HeadingByMarker(line, heading_markers[2])

\* The first word of the part without one trailing "." and, after it, one
\* trailing ":".
MarkToken(init) ==
    RemoveSuffix(RemoveSuffix(init, strophe_mark_delimiters[1]), strophe_mark_delimiters[2])

\* _parse_strophe_mark: the mark and the body, or the error raised.
_parse_strophe_mark(part) ==
    LET words == SplitFirstWord(Strip(part))
        init == MarkToken(words[1])
    IN  IF Len(words) # 2 THEN ValueError
        ELSE IF init = <<"R">> THEN [mark |-> ChorusMark, body |-> words[2]]
        ELSE IF init = <<"C">> THEN [mark |-> CodaMark, body |-> words[2]]
        ELSE IF init # <<>> /\ DigitRun(init) = Len(init)
            THEN [mark |-> NumberedStropheMark(IntOf(init)), body |-> words[2]]
        ELSE IF init # <<>> /\ LeadingRun(init, {"A", "B", "C", "D", "E"}) = Len(init)
            THEN IF Len(init) = 1
                 THEN [mark |-> LetteredStropheMark(init[1]), body |-> words[2]]
                 ELSE ValueError
        ELSE [mark |-> EmptyStropheMark, body |-> part]

\* The first whitespace normalizer: whitespace holding a newline becomes one
\* newline.
RECURSIVE NormalizeAroundNewlines(_)
NormalizeAroundNewlines(body) ==
    IF body = <<>> THEN <<>>
    ELSE LET n == LeadingRun(body, WhitespaceChars)
         IN  IF n = 0 THEN <<Head(body)>> \o NormalizeAroundNewlines(Tail(body))
             ELSE IF \E k \in 1..n : body[k] = "\n"
                 THEN <<"\n">> \o NormalizeAroundNewlines(Drop(body, n))
             ELSE Take(body, n) \o NormalizeAroundNewlines(Drop(body, n))

\* The second: whitespace other than line ends becomes one space.
RECURSIVE NormalizeSpaces(_)
NormalizeSpaces(body) ==
    IF body = <<>> THEN <<>>
    ELSE LET n == LeadingRun(body, WhitespaceChars \ {"\r", "\n"})
         IN  IF n = 0 THEN <<Head(body)>> \o NormalizeSpaces(Tail(body))
             ELSE <<" ">> \o NormalizeSpaces(Drop(body, n))

_normalize_strophe_whitespace(body) == Strip(NormalizeSpaces(NormalizeAroundNewlines(body)))

\* One pass of the loop of _parse_strophe with the chord parsed and the
\* segments of the pieces that follow.
ChordedPiece(chord, text, others) ==
    IF chord = SongParseError THEN SongParseError
    ELSE IF IsRaised(others) THEN others
    ELSE Returns(<<ChordedSegment(chord, text, 0)>> \o others.value)

\* The loop of _parse_strophe over pieces[1:]: the segments, or the error.
RECURSIVE ChordedPieces(_)
ChordedPieces(pieces) ==
    IF pieces = <<>> THEN Returns(<<>>)
    ELSE IF ~Contains(Head(pieces), chord_end_mark) THEN SongParseError
    ELSE ChordedPiece(parse(SplitOnce(Head(pieces), chord_end_mark)[1]),
                      SplitOnce(Head(pieces), chord_end_mark)[2],
                      ChordedPieces(Tail(pieces)))

\* The segments of the leading text and of the chorded pieces after it.
LeadAndChorded(lead, chorded) ==
    IF IsRaised(chorded) THEN chorded ELSE Returns(lead \o chorded.value)

\* The segments of the pieces of a body when the text ahead of the first
\* chord becomes a PlainSegment even if it is empty.
PiecesWithEmptyLead(pieces) ==
    LeadAndChorded(<<PlainSegment(pieces[1], 0)>>, ChordedPieces(Tail(pieces)))

\* The segments of the pieces that the body gives when split at "[".
BodySegments(pieces) ==
    LeadAndChorded(IF pieces[1] # <<>> THEN <<PlainSegment(pieces[1], 0)>> ELSE <<>>,
                   ChordedPieces(Tail(pieces)))

\* The end of _parse_strophe with the segments of the body.
MarkedStrophe(mark, segments) ==
    IF IsRaised(segments) THEN segments ELSE Strophe(mark, segments.value)

\* _parse_strophe with the mark parsed.
StropheOfMarked(marked) ==
    IF IsRaised(marked) THEN marked
    ELSE MarkedStrophe(marked.mark,
                       BodySegments(Split(_normalize_strophe_whitespace(marked.body),
                                          chord_start_mark)))

\* _parse_strophe: the Strophe, or the error raised.
_parse_strophe(part) == StropheOfMarked(_parse_strophe_mark(part))

\* One pass of the loop of loads with the strophe parsed and the strophes
\* of the parts that follow.
StropheAndOthers(strophe, others) ==
    IF IsRaised(strophe) THEN strophe
    ELSE IF IsRaised(others) THEN others
    ELSE Returns(<<strophe>> \o others.value)

\* The loop of loads over the parts that are strophes.
RECURSIVE ParseStrophes(_)
ParseStrophes(parts) ==
    IF parts = <<>> THEN Returns(<<>>)
    ELSE StropheAndOthers(_parse_strophe(Head(parts)), ParseStrophes(Tail(parts)))

\* The end of loads with the strophes parsed.
SongOfItems(annotations, items) ==
    IF IsRaised(items) THEN items ELSE Song(annotations, items.value)

\* loads with the heading parsed.
LoadsWithHeading(parts, heading) ==
    IF IsRaised(heading) THEN heading
    ELSE IF Len(parts) <= (IF heading.value # <<>> THEN 1 ELSE 0) THEN SongParseError
    ELSE SongOfItems(heading.value,
                     ParseStrophes(Drop(parts, IF heading.value # <<>> THEN 1 ELSE 0)))

\* loads with the text split into its parts.
LoadsParts(parts) ==
    IF parts = <<>> THEN IndexError
    ELSE LoadsWithHeading(parts,
                          IF ~Contains(parts[1], <<"\n">>)
                          THEN _try_parse_heading(parts[1]) ELSE Returns(<<>>))

\* DefaultFormat.loads: the Song, or the error raised.
DefaultLoads(text) == LoadsParts(_split_song_parts(text))
----------------------------------------------------------------------------
(* DefaultFormat.dumps (io.py:253-312).                                    *)

\* StropheMark.to_string(short=True) (model.py:178-276).
MarkToString(mark) ==
    CASE mark.cls = "NumberedStropheMark" -> StrOf(mark.number)
      [] mark.cls = "LetteredStropheMark" -> <<mark.letter>>
      [] mark.cls = "ChorusMark" -> <<"R">>
      [] mark.cls = "CodaMark" -> <<"C">>
      [] mark.cls = "EmptyStropheMark" -> <<>>

\* The annotations of the class cls.
RECURSIVE AnnotationsOfType(_, _)
AnnotationsOfType(annotations, cls) ==
    IF annotations = <<>> THEN <<>>
    ELSE (IF Head(annotations).cls = cls THEN <<Head(annotations)>> ELSE <<>>)
         \o AnnotationsOfType(Tail(annotations), cls)

\* dump_heading, for a song with at most one title.
dump_heading(s) ==
    LET author_annots == AnnotationsOfType(s.annotations, "AuthorAnnotation")
        authors == Join([k \in 1..Len(author_annots) |-> author_annots[k].value], <<",", " ">>)
        titles == AnnotationsOfType(s.annotations, "TitleAnnotation")
        title == IF titles = <<>> \/ titles[1].value = <<>> THEN untitled_title
                 ELSE titles[1].value
    IN  IF authors # <<>>
        THEN Spaces(heading_indent) \o authors \o heading_markers[1] \o title
        ELSE Spaces(heading_indent) \o title

\* dump_strophe_mark
dump_strophe_mark(mark, indent) ==
    LET mark_str == IF MarkToString(mark) # <<>>
                    THEN MarkToString(mark) \o strophe_mark_delimiters[1] ELSE <<>>
        pad == IF indent - Len(mark_str) > 1 THEN indent - Len(mark_str) ELSE 1
    IN  mark_str \o Spaces(pad)

\* The indent that fits the mark of the first strophe.
IndentOfFirstMark(items) ==
    IF items = <<>> THEN 0 ELSE Len(dump_strophe_mark(items[1].mark, 0))

\* _determine_strophe_indent, for items that are all strophes.
_determine_strophe_indent(items) ==
    IF items = <<>> THEN 0
    ELSE Max({Len(dump_strophe_mark(items[k].mark, 0)) : k \in 1..Len(items)})

\* The lines of text.split("\n") with their newlines, the last one kept
\* even when it is empty.
LineTextsWithLast(text) ==
    LET chunks == Split(text, <<"\n">>)
        n == Len(chunks)
    IN  [k \in 1..(n - 1) |-> chunks[k] \o <<"\n">>] \o <<chunks[n]>>

\* PlainSegment.splitlines (model.py:46-51): the texts of the lines.
LineTexts(text) ==
    LET chunks == Split(text, <<"\n">>)
        n == Len(chunks)
    IN  [k \in 1..(n - 1) |-> chunks[k] \o <<"\n">>]
        \o (IF chunks[n] # <<>> THEN <<chunks[n]>> ELSE <<>>)

\* StropheSegment.splitlines (model.py:46-51, 155-159).
splitlines(seg) ==
    IF seg.cls = "ChordedSegment" /\ LineTexts(seg.text) = <<>> THEN <<seg>>
    ELSE [k \in 1..Len(LineTexts(seg.text)) |-> [seg EXCEPT !.text = LineTexts(seg.text)[k]]]

\* Strophe.single_line_segments (model.py:284-285).
RECURSIVE single_line_segments(_)
single_line_segments(segments) ==
    IF segments = <<>> THEN <<>>
    ELSE splitlines(Head(segments)) \o single_line_segments(Tail(segments))

\* dump_segment with chords=True
dump_segment(seg) ==
    IF seg.cls = "ChordedSegment"
    THEN chord_start_mark \o ChordToString(seg.chord) \o chord_end_mark \o seg.text
    ELSE seg.text

\* raw_body.replace("\n", "\n" + indenter)
RECURSIVE IndentLines(_, _)
IndentLines(text, indenter) ==
    IF text = <<>> THEN <<>>
    ELSE IF Head(text) = "\n" THEN <<"\n">> \o indenter \o IndentLines(Tail(text), indenter)
    ELSE <<Head(text)>> \o IndentLines(Tail(text), indenter)

\* dump_strophe
dump_strophe(strophe, indent) ==
    LET lines == single_line_segments(strophe.segments)
        raw_body == Join([k \in 1..Len(lines) |-> dump_segment(lines[k])], <<>>)
    IN  dump_strophe_mark(strophe.mark, indent) \o IndentLines(raw_body, Spaces(indent))

\* DefaultFormat.dumps of a song whose annotations are authors and titles
\* and whose items are strophes, as loads returns it.
DefaultDumps(s) ==
    LET indent == _determine_strophe_indent(s.items)
    IN  <<"\n">> \o dump_heading(s) \o <<"\n", "\n">>
        \o Join([k \in 1..Len(s.items) |-> dump_strophe(s.items[k], indent)],
                <<"\n", "\n">>)

----------------------------------------------------------------------------
(* The plain dialect at work: a song text is typed part by part, loaded,   *)
(* dumped, and the dump is loaded again.                                   *)

MaxParts == 2

\* First parts that look like headings.
HeadingLines ==
    { <<"A", " ", "-", " ", "T">>,
      <<"A", ":", " ", "T">>,
      <<" ", "-", " ", "T">>,
      <<"A", " ", "-", " ", "B", " ", "-", " ", "C", ":", " ", "T">> }

\* The first token of a strophe part.
MarkTokens ==
    { <<"1", ".">>, <<"R", ":">>, <<"C">>, <<"B", ".">>, <<"A", "B", ".">>, <<"x">>, <<>> }

\* What follows the first token.
BodyTexts ==
    { <<" ", "[", "C", "]", "a", " ", " ", "[", "G", "]", "b">>,
      <<" ", "[", "C", " ", "a">>,
      <<" ", "a", " ", "-", " ", "b", " ", "\n", " ", "c">>,
      <<>> }

PartChoices == HeadingLines \cup {m \o b : m \in MarkTokens, b \in BodyTexts}

\* Two texts that part_separator_pattern matches.
PartSeparators == { <<"\n", "\n">>, <<"\n", " ", "\n">> }

InitPlain ==
    /\ DumpChordIdle
    /\ BodyIdle
    /\ AgamaIdle
    /\ ChordIdle
    /\ LatexIdle
    /\ NormIdle
    /\ SongLatexIdle
    /\ song_text = <<>>
    /\ n_parts = 0
    /\ ppc = "typing"
    /\ loaded = None
    /\ dumped = None
    /\ reloaded = None

TypePart ==
    /\ ppc = "typing"
    /\ n_parts < MaxParts
    /\ \E part \in PartChoices, sep \in PartSeparators :
          song_text' = IF n_parts = 0 THEN part ELSE song_text \o sep \o part
    /\ n_parts' = n_parts + 1
    /\ UNCHANGED <<ppc, loaded, dumped, reloaded, chordVars, latexVars, normVars, songLatexVars, agamaVars, dumpChordVars, bodyVars>>

\* song = DefaultFormat().loads(song_text)
Loads ==
    /\ ppc = "typing"
    /\ loaded' = DefaultLoads(song_text)
    /\ ppc' = "loaded"
    /\ UNCHANGED <<song_text, n_parts, dumped, reloaded, chordVars, latexVars, normVars, songLatexVars, agamaVars, dumpChordVars, bodyVars>>

\* DefaultFormat().dumps(song)
Dumps ==
    /\ ppc = "loaded"
    /\ IsSong(loaded)
    /\ dumped' = DefaultDumps(loaded)
    /\ ppc' = "dumped"
    /\ UNCHANGED <<song_text, n_parts, loaded, reloaded, chordVars, latexVars, normVars, songLatexVars, agamaVars, dumpChordVars, bodyVars>>

\* DefaultFormat().loads of the dump
LoadsDumped ==
    /\ ppc = "dumped"
    /\ reloaded' = DefaultLoads(dumped)
    /\ ppc' = "reloaded"
    /\ UNCHANGED <<song_text, n_parts, loaded, dumped, chordVars, latexVars, normVars, songLatexVars, agamaVars, dumpChordVars, bodyVars>>

NextPlain ==
    \/ TypePart
    \/ Loads
    \/ Dumps
    \/ LoadsDumped

SpecPlain == InitPlain /\ [][NextPlain]_vars

----------------------------------------------------------------------------
(* ModifiedSongsLatexFormat.loads (io.py:388-697, 820-830). Positions in a *)
(* text are counted from 0 as in the source: the character at pos is       *)
(* text[pos + 1].                                                          *)

LowercaseLetters ==
    {"a", "b", "c", "d", "e", "f", "g", "h", "i", "j", "k", "l", "m",
     "n", "o", "p", "q", "r", "s", "t", "u", "v", "w", "x", "y", "z"}
UppercaseLetters ==
    {"A", "B", "C", "D", "E", "F", "G", "H", "I", "J", "K", "L", "M",
     "N", "O", "P", "Q", "R", "S", "T", "U", "V", "W", "X", "Y", "Z"}
\* \w
WordChars == LowercaseLetters \cup UppercaseLetters \cup Digits \cup {"_"}

PositionalSongParseError == [raised |-> "PositionalSongParseError"]
KeyError == [raised |-> "KeyError"]
NotImplementedError == [raised |-> "NotImplementedError"]
\* The two SongParseErrors of loads itself, by their messages.
BeginsongNotFound == [raised |-> "SongParseError", message |-> "\\beginsong not found at beginning of song"]
NoStrophesFound == [raised |-> "SongParseError", message |-> "no strophes found"]
\* A loop that never ends: the call does not return.
NeverReturns == [raised |-> "nothing: the call never returns"]

IntroMark == [cls |-> "IntroMark", number |-> 0, letter |-> ""]
SoloMark == [cls |-> "SoloMark", number |-> 0, letter |-> ""]
BridgeMark == [cls |-> "BridgeMark", number |-> 0, letter |-> ""]
RecitationMark == [cls |-> "RecitationMark", number |-> 0, letter |-> ""]
NumberedChorusMark(number) == [cls |-> "NumberedChorusMark", number |-> number, letter |-> ""]

TurnChordsOn(oid) == [cls |-> "TurnChordsOn", value |-> <<>>, oid |-> oid]
\* EmbeddedStrophe (io.py:365-380); oid tells the objects apart.
EmbeddedStrophe(strophe, oid) == [cls |-> "EmbeddedStrophe", strophe |-> strophe, oid |-> oid]

\* isinstance(x, Annotation)
IsAnnotation(x) ==
    x.cls \in {"TitleAnnotation", "AuthorAnnotation", "TurnChordsOn", "TurnChordsOff", "RepeatCount"}

simple_beginverse_commands ==
    << <<<<"e", "m", "p", "t", "y", "v">>, EmptyStropheMark>>,
       <<<<"f", "r", "e", "e", "v">>, EmptyStropheMark>>,
       <<<<"c", "h", "o", "r">>, ChorusMark>>,
       <<<<"i", "n", "t", "r", "o">>, IntroMark>>,
       <<<<"s", "o", "l", "o">>, SoloMark>>,
       <<<<"b", "r", "i", "d", "g", "e">>, BridgeMark>>,
       <<<<"c", "h", "o", "r", "u", "s", "i">>, NumberedChorusMark(1)>>,
       <<<<"c", "h", "o", "r", "u", "s", "i", "i">>, NumberedChorusMark(2)>>,
       <<<<"a", "v", "e", "r", "s", "e">>, LetteredStropheMark("A")>>,
       <<<<"b", "v", "e", "r", "s", "e">>, LetteredStropheMark("B")>>,
       <<<<"c", "v", "e", "r", "s", "e">>, LetteredStropheMark("C")>>,
       <<<<"r", "e", "c", "i", "t", "e">>, RecitationMark>> >>
numbered_beginverse_command == <<"n", "u", "m">>
beginverse_commands ==
    <<numbered_beginverse_command>>
    \o [k \in 1..Len(simple_beginverse_commands) |-> simple_beginverse_commands[k][1]]
endverse_commands == <<<<"f", "i", "n">>, <<"c", "l">>>>
strophe_tokens == {"]", "\\", "[", "{", "}"}
noop_commands == {<<"e", "m", "p", "t", "y", "s", "p", "a", "c", "e">>, <<"\\", "\\">>}
\* simple_text_commands: the instances are made once, with the class, and
\* every parse returns these same objects; objects made by a parse have the
\* identities from first_parsed_oid on.
first_parsed_oid == 4
simple_text_commands ==
    << <<<<"c", "h", "o", "r", "d", "s", "o", "n">>, <<TurnChordsOn(1)>> >>,
       <<<<"c", "h", "o", "r", "d", "s", "o", "f", "f">>, <<TurnChordsOff(2)>> >>,
       <<<<"l", "d", "o", "t", "s">>, <<PlainSegment(<<".", ".", ".">>, 3)>> >>,
       <<<<"e", "n", "d", "s", "o", "n", "g">>, <<>> >> >>
text_load_repls == << <<<<"~", "-", "-", " ">>, <<" ", "-", " ">>>>, <<<<" ", "-", "-", " ">>, <<" ", "-", " ">>>> >>

\* text[pos]
At(text, pos) == text[pos + 1]
\* text[pos:]
From(text, pos) == IF pos >= Len(text) THEN <<>> ELSE SubSeq(text, pos + 1, Len(text))

\* text.replace(pat, sub), for a non-empty pat.
RECURSIVE Replace(_, _, _)
Replace(text, pat, sub) ==
    IF Len(text) < Len(pat) THEN text
    ELSE IF SubSeq(text, 1, Len(pat)) = pat
        THEN sub \o Replace(SubSeq(text, Len(pat) + 1, Len(text)), pat, sub)
    ELSE <<Head(text)>> \o Replace(Tail(text), pat, sub)

\* The length of the match of \w+ at the start of s, 0 when there is none.
WordRun(s) == LeadingRun(s, WordChars)

\* name\b matches in text from the index i on.
NameAt(text, i, name) ==
    /\ i + Len(name) - 1 <= Len(text)
    /\ SubSeq(text, i, i + Len(name) - 1) = name
    /\ (i + Len(name) > Len(text) \/ text[i + Len(name)] \notin WordChars)

\* The indexes of the backslashes of text that begin one of the commands.
CommandStarts(text, commands) ==
    {p \in 1..Len(text) :
        text[p] = "\\" /\ \E k \in 1..Len(commands) : NameAt(text, p + 1, commands[k])}

\* The command, first in the order of the alternatives, at the backslash p.
CommandAt(text, p, commands) ==
    commands[Min({k \in 1..Len(commands) : NameAt(text, p + 1, commands[k])})]

\* strophe_split_pattern.split(text): the text is split at every backslash
\* that begins a verse-opening command; the command stays in its piece.
RECURSIVE SplitBeforeCommands(_, _)
SplitBeforeCommands(text, commands) ==
    IF CommandStarts(text, commands) = {} THEN <<text>>
    ELSE LET p == Min(CommandStarts(text, commands))
         IN  <<SubSeq(text, 1, p - 1)>>
             \o SplitBeforeCommands(SubSeq(text, p + 1, Len(text)), commands)

\* endverse_pattern.split(text): the text is split at every command that
\* ends a verse, which is left out.
RECURSIVE SplitAtCommands(_, _)
SplitAtCommands(text, commands) ==
    IF CommandStarts(text, commands) = {} THEN <<text>>
    ELSE LET p == Min(CommandStarts(text, commands))
             after == p + Len(CommandAt(text, p, commands))
         IN  <<SubSeq(text, 1, p - 1)>>
             \o SplitAtCommands(SubSeq(text, after + 1, Len(text)), commands)

\* The match of beginsong_pattern at the start of the text:
\* \s*\\beginsong\{(?P<title>[^}]+?)}(?:\[(?P<annots>[^]]+?)])?
BeginsongMatch(text) ==
    LET lead == LeadingRun(text, WhitespaceChars)
        open == lead + Len(<<"\\", "b", "e", "g", "i", "n", "s", "o", "n", "g", "{">>)
        title == LeadingRun(From(text, open), {text[i] : i \in 1..Len(text)} \ {"}"})
        close == open + title
        annots == LeadingRun(From(text, close + 2), {text[i] : i \in 1..Len(text)} \ {"]"})
        with_annots == /\ close + 1 < Len(text)
                       /\ At(text, close + 1) = "["
                       /\ annots >= 1
                       /\ close + 2 + annots < Len(text)
    IN  IF /\ StartsWith(From(text, lead), <<"\\", "b", "e", "g", "i", "n", "s", "o", "n", "g", "{">>)
           /\ title >= 1
           /\ close < Len(text)
        THEN [title |-> SubSeq(text, open + 1, close),
              annots |-> IF with_annots THEN SubSeq(text, close + 3, close + 2 + annots) ELSE <<>>,
              end |-> IF with_annots THEN close + 3 + annots ELSE close + 1]
        ELSE None

\* The loop of _parse_beginsong over the annotations in brackets, each
\* matched by beginsong_annot_pattern, (?P<key>[a-z]+)=\{(?P<value>[^}]*?)}
RECURSIVE BeginsongAnnotations(_)
BeginsongAnnotations(other_annot_str) ==
    LET key == LeadingRun(other_annot_str, LowercaseLetters)
        value == LeadingRun(From(other_annot_str, key + 2),
                            {other_annot_str[i] : i \in 1..Len(other_annot_str)} \ {"}"})
        matches == /\ key >= 1
                   /\ StartsWith(From(other_annot_str, key), <<"=", "{">>)
                   /\ key + 2 + value < Len(other_annot_str)
    IN  IF other_annot_str = <<>> \/ ~matches THEN <<>>
        ELSE (IF SubSeq(other_annot_str, 1, key) = <<"b", "y">>
              THEN <<AuthorAnnotation(SubSeq(other_annot_str, key + 3, key + 2 + value), 0)>>
              ELSE <<>>)
             \o BeginsongAnnotations(From(other_annot_str, key + 3 + value))

\* _parse_beginsong: the annotations and the remnant, or the error raised.
_parse_beginsong(text) ==
    LET match == BeginsongMatch(text)
    IN  IF match = None THEN BeginsongNotFound
        ELSE [annotations |-> <<TitleAnnotation(match.title, 0)>>
                              \o BeginsongAnnotations(match.annots),
              remnant |-> LStrip(From(text, match.end), WhitespaceChars)]

\* The chord between \[ and ] as the items ModifiedSongsLatexChordParser
\* substitutes: the commands \shrp, \hidx and \didx, and single characters.
RECURSIVE ChordItems(_)
ChordItems(text) ==
    IF text = <<>> THEN <<>>
    ELSE IF StartsWith(text, <<"\\", "s", "h", "r", "p">>) THEN <<SHRP>> \o ChordItems(From(text, 5))
    ELSE IF StartsWith(text, <<"\\", "h", "i", "d", "x">>) THEN <<HIDX>> \o ChordItems(From(text, 5))
    ELSE IF StartsWith(text, <<"\\", "d", "i", "d", "x">>) THEN <<DIDX>> \o ChordItems(From(text, 5))
    ELSE <<Head(text)>> \o ChordItems(Tail(text))

\* _handle_parsed_text
_handle_parsed_text(parsed_text) ==
    PlainSegment(Replace(Replace(parsed_text, text_load_repls[1][1], text_load_repls[1][2]),
                         text_load_repls[2][1], text_load_repls[2][2]), 0)

\* _parse_text_chunk: the PlainSegment, if any, and the position after it.
_parse_text_chunk(text, pos) ==
    LET pretoken == LeadingRun(From(text, pos), {text[i] : i \in 1..Len(text)} \ strophe_tokens)
    IN  IF pos + pretoken = Len(text)
        THEN [segs |-> <<_handle_parsed_text(From(text, pos))>>, pos |-> Len(text)]
        ELSE IF pretoken > 0
        THEN [segs |-> <<_handle_parsed_text(SubSeq(text, pos + 1, pos + pretoken))>>,
              pos |-> pos + pretoken]
        ELSE [segs |-> <<>>, pos |-> pos]

\* The end of _parse_chord_mark with the chord that the parser returned.
ChordMarkOf(chord, pos) ==
    IF IsRaised(chord) THEN chord ELSE [chord |-> chord, pos |-> pos]

\* _parse_chord_mark: the chord and the position after the closing bracket.
_parse_chord_mark(text, pos) ==
    IF ~StartsWith(From(text, pos), <<"\\", "[">>) THEN PositionalSongParseError
    ELSE IF Find(From(text, pos + 2), <<"]">>) = -1 THEN PositionalSongParseError
    ELSE ChordMarkOf(
             LatexChordParse(ChordItems(SubSeq(text, pos + 3,
                                               pos + 2 + Find(From(text, pos + 2), <<"]">>)))),
             pos + 2 + Find(From(text, pos + 2), <<"]">>) + 1)

\* int(text) for a text without underscores: whitespace around, a sign, and
\* digits.
Unsigned(text) ==
    IF Strip(text) # <<>> /\ Head(Strip(text)) \in {"+", "-"} THEN Tail(Strip(text)) ELSE Strip(text)
IsIntText(text) == Unsigned(text) # <<>> /\ DigitRun(Unsigned(text)) = Len(Unsigned(text))
IntOfText(text) ==
    IF Head(Strip(text)) = "-" THEN 0 - IntOf(Unsigned(text)) ELSE IntOf(Unsigned(text))

\* The commands of complex_text_commands applied to the segments in their
\* braces (io.py:679-697). The embedded strophes of one \repchorus are one
\* object, as many times as the repeat count says.
_parse_repchorus(segs, mark, oid) ==
    IF segs = <<>> THEN IndexError
    ELSE LET counted == segs[Len(segs)].cls = "RepeatCount"
             n_repeats == IF counted THEN segs[Len(segs)].value ELSE 1
             kept == IF counted THEN SubSeq(segs, 1, Len(segs) - 1) ELSE segs
         IN  Returns([k \in 1..n_repeats |->
                        EmbeddedStrophe(RepeatStropheWithSameMark(mark, kept), oid)])

complex_text_commands(command_name, segs, oid) ==
    CASE command_name = <<"c", "s", "e", "q">> -> Returns(segs)
      [] command_name = <<"u", "v">> ->
            Returns(<<PlainSegment(<<"\"">>, 0)>> \o segs \o <<PlainSegment(<<"\"">>, 0)>>)
      [] command_name = <<"r", "e", "p">> ->
            IF segs = <<>> THEN IndexError
            ELSE IF segs[1].cls = "EmbeddedStrophe" THEN NotImplementedError
            ELSE IF segs[1].cls \notin {"PlainSegment", "ChordedSegment"} THEN AttributeError
            ELSE IF ~IsIntText(segs[1].text) THEN ValueError
            ELSE Returns(<<[RepeatCount(IntOfText(segs[1].text)) EXCEPT !.oid = oid]>>)
      [] command_name = <<"r", "e", "p", "c", "h", "o", "r", "u", "s">> -> _parse_repchorus(segs, ChorusMark, oid)
      [] command_name = <<"r", "e", "p", "c", "h", "o", "r", "u", "s", "i">> -> _parse_repchorus(segs, NumberedChorusMark(1), oid)
      [] command_name = <<"r", "e", "p", "c", "h", "o", "r", "u", "s", "i", "i">> -> _parse_repchorus(segs, NumberedChorusMark(2), oid)
      [] OTHER -> KeyError

\* The entry of simple_text_commands for the name, 0 when there is none.
SimpleTextCommand(command_name) ==
    LET found == {k \in 1..Len(simple_text_commands) : simple_text_commands[k][1] = command_name}
    IN  IF found = {} THEN 0 ELSE Min(found)

\* _parse_strophe_part with the outcomes of its two attempts: the command
\* chunk unless that raised a PositionalSongParseError, else the strophe
\* chunk.
StrophePartOf(command_chunk, strophe_chunk) ==
    IF command_chunk # PositionalSongParseError THEN command_chunk ELSE strophe_chunk

\* The end of _parse_command_chunk for a command that is neither simple nor
\* a no-op, with what complex_text_commands made of its braces.
ConvertedCommand(converted, after_pos) ==
    IF IsRaised(converted) THEN converted ELSE [segs |-> converted.value, pos |-> after_pos]

\* _parse_command_chunk from the lookup of the command on: parens holds the
\* segments in the braces of the command and the position after it.
CommandWith(pos, command_name, parens) ==
    IF IsRaised(parens) THEN parens
    ELSE IF SimpleTextCommand(command_name) # 0
        THEN IF parens.segs # <<>> THEN PositionalSongParseError
             ELSE [segs |-> simple_text_commands[SimpleTextCommand(command_name)][2],
                   pos |-> parens.pos]
    ELSE IF command_name \in noop_commands THEN parens
    ELSE ConvertedCommand(complex_text_commands(command_name, parens.segs, pos), parens.pos)

\* The end of _parse_strophe_chunk with the text chunk after the chord.
ChunkWithText(segments, plain) == [segs |-> segments \o plain.segs, pos |-> plain.pos]

\* _parse_strophe_chunk from the text chunk on.
ChunkOf(text, segments, after_chord_pos) ==
    IF after_chord_pos < Len(text)
    THEN ChunkWithText(segments, _parse_text_chunk(text, after_chord_pos))
    ELSE [segs |-> segments, pos |-> after_chord_pos]

\* _parse_strophe_chunk with the outcome of _parse_chord_chunk: a
\* PositionalSongParseError means that no chord begins the chunk.
StropheChunkWith(text, pos, chorded) ==
    IF chorded = PositionalSongParseError THEN ChunkOf(text, <<>>, pos)
    ELSE IF IsRaised(chorded) THEN chorded
    ELSE ChunkOf(text, <<chorded.segment>>, chorded.pos)

\* The end of _parse_chord_chunk with the segments in the braces after the
\* chord mark.
ChordChunkWith(mark, inner_chunk) ==
    IF IsRaised(inner_chunk) THEN inner_chunk
    ELSE IF Len(inner_chunk.segs) # 1 \/ inner_chunk.segs[1].cls # "PlainSegment"
    THEN PositionalSongParseError
    ELSE [segment |-> ChordedSegment(mark.chord, inner_chunk.segs[1].text, 0),
          pos |-> inner_chunk.pos]

RECURSIVE _parse_strophe_part(_, _)
RECURSIVE _parse_command_chunk(_, _)
RECURSIVE CommandNamed(_, _, _)
RECURSIVE _parse_curly_parens(_, _)
RECURSIVE CurlyInner(_, _, _)
RECURSIVE CurlyNext(_, _, _, _)
RECURSIVE _parse_strophe_chunk(_, _)
RECURSIVE _parse_chord_chunk(_, _)
RECURSIVE ChordChunkMarked(_, _)

\* _parse_strophe_part: a command chunk where one begins, else a strophe
\* chunk.
_parse_strophe_part(text, pos) ==
    StrophePartOf(IF At(text, pos) = "\\" THEN _parse_command_chunk(text, pos)
                  ELSE PositionalSongParseError,
                  _parse_strophe_chunk(text, pos))

_parse_command_chunk(text, pos) ==
    IF pos >= Len(text) THEN IndexError
    ELSE IF At(text, pos) # "\\" \/ Len(text) <= pos + 1 THEN PositionalSongParseError
    ELSE IF At(text, pos + 1) = "\\" THEN [segs |-> <<>>, pos |-> pos + 2]
    ELSE IF WordRun(From(text, pos + 1)) = 0 THEN PositionalSongParseError
    ELSE CommandNamed(text, pos, SubSeq(text, pos + 2, pos + 1 + WordRun(From(text, pos + 1))))

\* _parse_command_chunk from the braces of the command on: the segments in
\* the braces, or none and the whitespace after the name skipped.
CommandNamed(text, pos, command_name) ==
    CommandWith(pos, command_name,
                IF /\ pos + 1 + Len(command_name) < Len(text)
                   /\ At(text, pos + 1 + Len(command_name)) = "{"
                THEN _parse_curly_parens(text, pos + 1 + Len(command_name))
                ELSE [segs |-> <<>>,
                      pos |-> pos + 1 + Len(command_name)
                              + LeadingRun(From(text, pos + 1 + Len(command_name)),
                                           WhitespaceChars)])

\* The loop of _parse_curly_parens from the position current_pos on.
CurlyInner(text, current_pos, inner_segments) ==
    IF current_pos >= Len(text) THEN IndexError
    ELSE IF At(text, current_pos) = "}" THEN [segs |-> inner_segments, pos |-> current_pos + 1]
    ELSE CurlyNext(text, current_pos, inner_segments, _parse_strophe_part(text, current_pos))

\* One pass of that loop with the part parsed: a part that holds nothing and
\* ends where it began is parsed again and again.
CurlyNext(text, current_pos, inner_segments, part) ==
    IF IsRaised(part) THEN part
    ELSE IF part.pos = current_pos /\ part.segs = <<>> THEN NeverReturns
    ELSE CurlyInner(text, part.pos, inner_segments \o part.segs)

_parse_curly_parens(text, pos) ==
    IF At(text, pos) # "{" THEN PositionalSongParseError
    ELSE CurlyInner(text, pos + 1, <<>>)

_parse_strophe_chunk(text, pos) ==
    StropheChunkWith(text, pos, _parse_chord_chunk(text, pos))

_parse_chord_chunk(text, pos) == ChordChunkMarked(text, _parse_chord_mark(text, pos))

\* _parse_chord_chunk with the chord mark parsed.
ChordChunkMarked(text, mark) ==
    IF IsRaised(mark) THEN mark
    ELSE IF ~(mark.pos < Len(text) /\ At(text, mark.pos) = "{")
    THEN [segment |-> ChordedSegment(mark.chord, <<>>, 0), pos |-> mark.pos]
    ELSE ChordChunkWith(mark, _parse_curly_parens(text, mark.pos))

\* _join_strophe_segments from the index seg_i (counted from 1) on.
RECURSIVE JoinFrom(_, _, _)
JoinFrom(segments, seg_i, current_chords_on) ==
    IF seg_i > Len(segments) THEN segments
    ELSE LET removed == SubSeq(segments, 1, seg_i - 1) \o SubSeq(segments, seg_i + 1, Len(segments))
         IN  IF segments[seg_i].cls = "TurnChordsOn" THEN JoinFrom(removed, seg_i, TRUE)
             ELSE IF segments[seg_i].cls = "TurnChordsOff" THEN JoinFrom(removed, seg_i, FALSE)
             ELSE IF /\ current_chords_on
                     /\ segments[seg_i].cls = "PlainSegment"
                     /\ seg_i > 1
                     /\ segments[seg_i - 1].cls = "ChordedSegment"
                 THEN JoinFrom([removed EXCEPT ![seg_i - 1].text = @ \o segments[seg_i].text],
                               seg_i, current_chords_on)
             ELSE JoinFrom(segments, seg_i + 1, current_chords_on)

_join_strophe_segments(segments, chords_on) == JoinFrom(segments, 1, chords_on)

\* The loop of _parse_strophe_segments from the position current_pos on.
RECURSIVE SegmentsFrom(_, _, _)
RECURSIVE SegmentsNext(_, _, _, _)
SegmentsFrom(body, current_pos, strophe_segments) ==
    IF current_pos >= Len(body) THEN Returns(strophe_segments)
    ELSE SegmentsNext(body, current_pos, strophe_segments, _parse_strophe_part(body, current_pos))

\* One pass of that loop with the part parsed.
SegmentsNext(body, current_pos, strophe_segments, part) ==
    IF IsRaised(part) THEN part
    ELSE IF part.pos = current_pos /\ part.segs = <<>> THEN NeverReturns
    ELSE SegmentsFrom(body, part.pos, strophe_segments \o part.segs)
\* The end of _parse_strophe_segments with the parts parsed.
JoinedSegments(parts, chords_on) ==
    IF IsRaised(parts) THEN parts
    ELSE Returns(_join_strophe_segments(parts.value, chords_on))

\* _parse_strophe_segments
_parse_strophe_segments(body, chords_on) ==
    JoinedSegments(SegmentsFrom(body, 0, <<>>), chords_on)

\* The loop of _parse_annotation_chunk from the position current_pos on.
RECURSIVE AnnotationsFrom(_, _, _)
RECURSIVE AnnotationsNext(_, _, _)
AnnotationsFrom(annot_str, current_pos, strophes_and_annots) ==
    IF current_pos >= Len(annot_str) THEN Returns(strophes_and_annots)
    ELSE AnnotationsNext(
             annot_str, strophes_and_annots,
             _parse_command_chunk(
                 annot_str,
                 current_pos + LeadingRun(From(annot_str, current_pos), WhitespaceChars)))

\* One pass of that loop with the command chunk parsed.
AnnotationsNext(annot_str, strophes_and_annots, part) ==
    IF IsRaised(part) THEN part
    ELSE IF \E k \in 1..Len(part.segs) :
               ~(part.segs[k].cls = "EmbeddedStrophe" \/ IsAnnotation(part.segs[k]))
        THEN ValueError
    ELSE AnnotationsFrom(annot_str, part.pos, strophes_and_annots \o part.segs)

_parse_annotation_chunk(annot_str) == AnnotationsFrom(annot_str, 0, <<>>)

\* The end of _parse_annotations with the chunk parsed.
OnlyAnnotations(raw) ==
    IF IsRaised(raw) THEN raw
    ELSE IF \E k \in 1..Len(raw.value) : ~IsAnnotation(raw.value[k]) THEN ValueError
    ELSE raw

\* _parse_annotations
_parse_annotations(annot_str) == OnlyAnnotations(_parse_annotation_chunk(annot_str))

\* ModifiedSongsLatexFormat._parse_strophe_mark
LatexStropheMark(mark_str, num) ==
    LET found == {k \in 1..Len(simple_beginverse_commands) :
                     simple_beginverse_commands[k][1] = mark_str}
    IN  IF mark_str = numbered_beginverse_command THEN NumberedStropheMark(num)
        ELSE IF found # {} THEN simple_beginverse_commands[Min(found)][2]
        ELSE SongParseError

\* The end of _parse_strophe with what follows the strophe parsed.
StropheAndAfter(mark, segments, after) ==
    IF IsRaised(after) THEN after
    ELSE [strophe |-> Strophe(mark, segments), after |-> after.value]

\* _parse_strophe with the segments of the body parsed.
StropheWithSegments(mark, segments, after_str) ==
    IF IsRaised(segments) THEN segments
    ELSE StropheAndAfter(mark, segments.value, _parse_annotation_chunk(Strip(after_str)))

\* _parse_strophe with the mark parsed and the rest split at the command
\* that ends the verse.
StropheMarked(mark, parts, chords_on) ==
    IF IsRaised(mark) THEN mark
    ELSE IF Len(parts) # 2 THEN SongParseError
    ELSE StropheWithSegments(mark, _parse_strophe_segments(Strip(parts[1]), chords_on),
                             parts[2])

\* ModifiedSongsLatexFormat._parse_strophe: the strophe and what follows
\* it, or the error raised.
LatexParseStrophe(strophe_str, num, chords_on) ==
    IF WordRun(strophe_str) = 0 THEN AttributeError
    ELSE StropheMarked(
             LatexStropheMark(Take(strophe_str, WordRun(strophe_str)), num),
             SplitAtCommands(From(strophe_str, WordRun(strophe_str)), endverse_commands),
             chords_on)

\* process_chords_on_instructions (io.py:820-830)
RECURSIVE ChordsOnUpdate(_, _)
ChordsOnUpdate(annots, chords_on) ==
    IF annots = <<>> THEN chords_on
    ELSE ChordsOnUpdate(Tail(annots),
                        CASE Head(annots).cls = "TurnChordsOn" -> TRUE
                          [] Head(annots).cls = "TurnChordsOff" -> FALSE
                          [] OTHER -> chords_on)

RECURSIVE AnnotsLeft(_)
AnnotsLeft(annots) ==
    IF annots = <<>> THEN <<>>
    ELSE (IF Head(annots).cls \in {"TurnChordsOn", "TurnChordsOff"} THEN <<>> ELSE <<Head(annots)>>)
         \o AnnotsLeft(Tail(annots))

\* The items that loads appends for what follows the v-th strophe: the
\* strophe of an EmbeddedStrophe, or the annotation; key tells the objects
\* apart.
PostStropheItems(v, poststrophe_content) ==
    [k \in 1..Len(poststrophe_content) |->
        [key |-> <<v, poststrophe_content[k].oid>>,
         obj |-> IF poststrophe_content[k].cls = "EmbeddedStrophe"
                 THEN poststrophe_content[k].strophe
                 ELSE AnnotationItem(poststrophe_content[k])]]

\* The loop of loads over the strophe strings from the v-th on: the items,
\* each with the key of its object, or the error raised.
RECURSIVE LoadStrophesFrom(_, _, _, _, _)
RECURSIVE LoadNext(_, _, _, _, _, _)
LoadStrophesFrom(strophe_strs, v, num, chords_on, items) ==
    IF v > Len(strophe_strs) THEN Returns(items)
    ELSE LoadNext(strophe_strs, v, num, chords_on, items,
                  LatexParseStrophe(Strip(strophe_strs[v]), num, chords_on))

\* One pass of that loop with the strophe parsed.
LoadNext(strophe_strs, v, num, chords_on, items, parsed_strophe) ==
    IF IsRaised(parsed_strophe) THEN parsed_strophe
    ELSE LoadStrophesFrom(
             strophe_strs, v + 1,
             IF parsed_strophe.strophe.mark.cls = "NumberedStropheMark"
             THEN num + 1 ELSE num,
             ChordsOnUpdate(parsed_strophe.after, chords_on),
             items \o <<[key |-> <<v, -1>>, obj |-> parsed_strophe.strophe]>>
                   \o PostStropheItems(v, AnnotsLeft(parsed_strophe.after)))

\* A count that asks for one strophe less than the source does.
TooFewStrophesOfOne(strophe_strs) == Len(strophe_strs) < 2

\* len(strophe_strs) < 3
TooFewStrophes(strophe_strs) == Len(strophe_strs) < 3

\* The end of loads with the items loaded.
LoadedSong(annotations, items) ==
    IF IsRaised(items) THEN items ELSE Song(annotations, items.value)

\* loads with the annotations ahead of the first strophe parsed.
LoadsAnnotated(annotations, more, strophe_strs) ==
    IF IsRaised(more) THEN more
    ELSE LoadedSong(annotations \o more.value,
                    LoadStrophesFrom(strophe_strs, 2, 1, TRUE, <<>>))

\* loads with the remnant split before the verse-opening commands.
LoadsSplit(annotations, strophe_strs) ==
    IF TooFewStrophes(strophe_strs) THEN NoStrophesFound
    ELSE LoadsAnnotated(annotations, _parse_annotations(Strip(strophe_strs[1])), strophe_strs)

\* loads with the outcome of _parse_beginsong.
LoadsBegun(begun) ==
    IF IsRaised(begun) THEN begun
    ELSE LoadsSplit(begun.annotations,
                    SplitBeforeCommands(begun.remnant, beginverse_commands))

\* ModifiedSongsLatexFormat.loads: the annotations and the items, each with
\* the key of its object, or the error raised.
LatexLoads(text) == LoadsBegun(_parse_beginsong(text))
----------------------------------------------------------------------------
(* ModifiedSongsLatexFormat.dumps (io.py:699-817) with chords=True, of a   *)
(* song s whose items are objects of the heap h.                           *)

MalformedSongError == [raised |-> "MalformedSongError"]

\* ChordModifier.level (model.py:65-132)
ModifierLevel(m) == IF m.kind \in {"Minor", "BassNote"} THEN 0 ELSE 1

chord_level_commands(level, dumped_group) ==
    CASE level = 0 -> dumped_group
      [] level = 1 -> <<"\\", "h", "i", "d", "x", "{">> \o dumped_group \o <<"}">>
      [] level = -1 -> <<"\\", "d", "i", "d", "x", "{">> \o dumped_group \o <<"}">>

\* The groups of dump_chord, dumped: neighbouring modifiers of one level
\* are joined and put into the command of the level.
RECURSIVE DumpModifierGroups(_)
DumpModifierGroups(mods) ==
    IF mods = <<>> THEN <<>>
    ELSE LET level == ModifierLevel(Head(mods))
             n == CHOOSE n \in 1..Len(mods) :
                     /\ \A k \in 1..n : ModifierLevel(mods[k]) = level
                     /\ (n = Len(mods) \/ ModifierLevel(mods[n + 1]) # level)
         IN  chord_level_commands(level, JoinModifiers(SubSeq(mods, 1, n)))
             \o DumpModifierGroups(SubSeq(mods, n + 1, Len(mods)))

dump_chord(chord) ==
    Replace(chord.root, <<"#">>, <<"\\", "s", "h", "r", "p", "{", "}">>) \o DumpModifierGroups(chord.modifiers)

\* text_dump_repls, in the order of the dictionary
text_dump_repls ==
    << <<<<" ", "-", " ">>, <<" ", "-", "-", " ">>>>, <<<<"\n">>, <<"\\", "\\", "\n">>>>, <<<<".", ".", ".">>, <<"\\", "l", "d", "o", "t", "s", "{", "}">>>> >>

dump_text(some_text) ==
    Replace(Replace(Replace(some_text, text_dump_repls[1][1], text_dump_repls[1][2]),
                    text_dump_repls[2][1], text_dump_repls[2][2]),
            text_dump_repls[3][1], text_dump_repls[3][2])

\* What dump_segments appends for the segment seg that follows prev_seg,
\* None ahead of the first.
DumpedSegment(seg, prev_seg) ==
    IF seg.cls = "ChordedSegment"
    THEN (IF prev_seg # None /\ prev_seg.cls = "PlainSegment" THEN <<"\n", "\\", "c", "h", "o", "r", "d", "s", "o", "n", "\n">> ELSE <<>>)
         \o <<"\\", "[">> \o dump_chord(seg.chord) \o <<"]">>
         \o (IF seg.text = <<>> \/ IsSpace(seg.text) THEN <<>>
             ELSE IF Contains(seg.text, <<"\n">>)
             THEN LET lines == SplitOnce(seg.text, <<"\n">>)
                  IN  (IF lines[1] # <<>>
                       THEN <<"{">> \o dump_text(lines[1]) \o <<"}", "\\", "\\", "\n">> ELSE <<>>)
                      \o dump_text(lines[2])
             ELSE <<"{">> \o dump_text(seg.text) \o <<"}">>)
    ELSE (IF prev_seg # None /\ prev_seg.cls = "ChordedSegment" THEN <<"\n", "\\", "c", "h", "o", "r", "d", "s", "o", "f", "f", "\n">> ELSE <<>>)
         \o dump_text(seg.text)

RECURSIVE DumpSegmentsFrom(_, _)
DumpSegmentsFrom(segments, k) ==
    IF k > Len(segments) THEN <<>>
    ELSE DumpedSegment(segments[k], IF k = 1 THEN None ELSE segments[k - 1])
         \o DumpSegmentsFrom(segments, k + 1)

\* dump_segments: the text, or the error raised.
dump_segments(segments) ==
    IF \E k \in 1..Len(segments) : segments[k].cls \notin {"PlainSegment", "ChordedSegment"}
    THEN ValueError
    ELSE Returns(Replace(
            (IF segments # <<>> /\ segments[1].cls = "ChordedSegment"
             THEN <<"\\", "c", "h", "o", "r", "d", "s", "o", "n", "\n">> ELSE <<>>) \o DumpSegmentsFrom(segments, 1),
            <<"\n", "\n">>, <<"\n">>))

\* simple_beginverse_command_names: the command of the mark, the last one
\* of simple_beginverse_commands that makes it; 0 when there is none.
simple_beginverse_command_names(mark) ==
    LET found == {k \in 1..Len(simple_beginverse_commands) :
                     simple_beginverse_commands[k][2] = mark}
    IN  IF found = {} THEN 0 ELSE Max(found)

dump_beginverse(mark) ==
    IF mark.cls = "NumberedStropheMark" THEN Returns(<<"\\", "n", "u", "m">>)
    ELSE IF simple_beginverse_command_names(mark) # 0
    THEN Returns(<<"\\">> \o simple_beginverse_commands[simple_beginverse_command_names(mark)][1])
    ELSE ValueError

\* ModifiedSongsLatexFormat.dump_strophe of an item that is no
\* StropheRepeat.
LatexDumpStrophe(strophe) ==
    LET beginverse == dump_beginverse(strophe.mark)
        endverse == IF strophe.mark.cls = "NumberedStropheMark" THEN <<"\\", "f", "i", "n">> ELSE <<"\\", "c", "l">>
        content == dump_segments(strophe.segments)
    IN  IF strophe.cls = "RepeatStropheWithSameMark" THEN ValueError
        ELSE IF IsRaised(beginverse) THEN beginverse
        ELSE IF IsRaised(content) THEN content
        ELSE IF content.value # <<>>
        THEN Returns(beginverse.value \o <<"\n">> \o content.value \o <<"\n">> \o endverse)
        ELSE Returns(beginverse.value \o <<"\n">> \o endverse)

\* repcommands
repcommands(mark) ==
    CASE mark = ChorusMark -> <<"r", "e", "p", "c", "h", "o", "r", "u", "s">>
      [] mark = NumberedChorusMark(1) -> <<"r", "e", "p", "c", "h", "o", "r", "u", "s", "i">>
      [] mark = NumberedChorusMark(2) -> <<"r", "e", "p", "c", "h", "o", "r", "u", "s", "i", "i">>
      [] OTHER -> <<>>

\* dump_strophe_repeat of the StropheRepeat id, n times in a row.
\* strophe.segments is strophe.repeated_strophe.segments (model.py:303-305),
\* so the test for modifications never finds one.
dump_strophe_repeat(h, id, n) ==
    IF repcommands(mark_of(h, id)) = <<>> THEN KeyError
    ELSE Returns(<<"\\">> \o repcommands(mark_of(h, id)) \o <<"{">>
                 \o (IF n > 1 THEN <<"\\", "r", "e", "p", "{">> \o StrOf(n) \o <<"}">> ELSE <<>>) \o <<"}">>)

\* song.items[i+1].repeated_strophe != item.repeated_strophe
RepeatsDiffer(h, item, next_item) ==
    ItemValue(h, h[next_item].repeated_strophe) # ItemValue(h, h[item].repeated_strophe)

\* The loop of dump_song_items from the i-th item on, with n repeats
\* accumulated: what it yields, or the error raised.
RECURSIVE DumpItemsFrom(_, _, _, _)
DumpItemsFrom(h, items, i, n) ==
    IF i > Len(items) THEN Returns(<<>>)
    ELSE LET item == items[i]
             ends_run == \/ i = Len(items)
                         \/ h[items[i + 1]].cls # "StropheRepeat"
                         \/ RepeatsDiffer(h, item, items[i + 1])
             yielded == CASE h[item].cls = "Annotation" -> NotImplementedError
                          [] h[item].cls = "StropheRepeat" /\ ends_run ->
                                dump_strophe_repeat(h, items[i - n], n + 1)
                          [] h[item].cls = "StropheRepeat" /\ ~ends_run -> None
                          [] OTHER -> LatexDumpStrophe(h[item])
             others == DumpItemsFrom(h, items, i + 1,
                                     IF h[item].cls = "StropheRepeat" /\ ~ends_run
                                     THEN n + 1 ELSE 0)
         IN  IF IsRaised(yielded) THEN yielded
             ELSE IF IsRaised(others) THEN others
             ELSE Returns((IF yielded = None THEN <<>> ELSE <<yielded.value>>)
                          \o others.value)

\* ModifiedSongsLatexFormat.dump_song_items
LatexDumpSongItems(h, s) == DumpItemsFrom(h, s.items, 1, 0)

\* dump_beginsong: the text, or the error of get_title.
dump_beginsong(s) ==
    LET author_annots == AnnotationsOfType(s.annotations, "AuthorAnnotation")
        authors == Join([k \in 1..Len(author_annots) |-> author_annots[k].value], <<",", " ">>)
        titles == AnnotationsOfType(s.annotations, "TitleAnnotation")
        title == IF titles = <<>> THEN <<"N", "o", "n", "e">> ELSE titles[1].value
        meta == IF authors # <<>> THEN <<"[", "b", "y", "=", "{">> \o authors \o <<"}", "]">> ELSE <<>>
    IN  IF Len(titles) > 1 THEN MalformedSongError
        ELSE Returns(<<"\\", "b", "e", "g", "i", "n", "s", "o", "n", "g", "{">> \o title \o <<"}">> \o meta \o <<"\n", "\\", "c", "h", "o", "r", "d", "s", "o", "f", "f">>)

\* get_displayable_annotations with chords=True
RECURSIVE DisplayableAnnotations(_)
DisplayableAnnotations(annotations) ==
    IF annotations = <<>> THEN <<>>
    ELSE (IF Head(annotations).cls \in {"TitleAnnotation", "AuthorAnnotation"}
          THEN <<>> ELSE <<Head(annotations)>>)
         \o DisplayableAnnotations(Tail(annotations))

\* ModifiedSongsLatexFormat.dumps: the text, or the error raised.
LatexDumps(h, s) ==
    LET beginsong == dump_beginsong(s)
        dumped_items == LatexDumpSongItems(h, s)
    IN  IF IsRaised(beginsong) THEN beginsong
        ELSE IF DisplayableAnnotations(s.annotations) # <<>> THEN NotImplementedError
        ELSE IF IsRaised(dumped_items) THEN dumped_items
        ELSE Returns(Join(<<beginsong.value>> \o dumped_items.value, <<"\n">>))

----------------------------------------------------------------------------
(* The LaTeX dialect at work: a song text is typed, loaded, normalized and *)
(* dumped.                                                                 *)

\* The index of the first item of the same object as the k-th.
FirstOfObject(items, k) == Min({j \in 1..k : items[j].key = items[k].key})

\* The segments of the objects ahead of the one whose first item is the
\* k-th.
RECURSIVE SegmentsOfObjectsAhead(_, _)
SegmentsOfObjectsAhead(items, k) ==
    IF k <= 1 THEN 0
    ELSE SegmentsOfObjectsAhead(items, k - 1)
         + (IF FirstOfObject(items, k - 1) = k - 1 THEN Len(items[k - 1].obj.segments) ELSE 0)

\* The song that loads returned as objects of a heap: an object per key,
\* and an identity per annotation and per segment that the parse made.
LoadedObjects(s) ==
    LET firsts == {FirstOfObject(s.items, k) : k \in 1..Len(s.items)}
        order == Sorted(firsts)
        annot_oid(k) == IF s.annotations[k].oid # 0 THEN s.annotations[k].oid
                        ELSE first_parsed_oid + k - 1
        seg_oid(j, m) == IF s.items[j].obj.segments[m].oid # 0
                         THEN s.items[j].obj.segments[m].oid
                         ELSE first_parsed_oid + Len(s.annotations)
                              + SegmentsOfObjectsAhead(s.items, j) + m - 1
    IN  [heap |-> [c \in 1..Len(order) |->
                     [s.items[order[c]].obj EXCEPT
                        !.segments = [m \in 1..Len(s.items[order[c]].obj.segments) |->
                                        [s.items[order[c]].obj.segments[m] EXCEPT
                                            !.oid = seg_oid(order[c], m)]]]],
         song |-> Song([k \in 1..Len(s.annotations) |->
                          [s.annotations[k] EXCEPT !.oid = annot_oid(k)]],
                       [k \in 1..Len(s.items) |-> RankIn(firsts, FirstOfObject(s.items, k))]),
         next_oid |-> first_parsed_oid + Len(s.annotations)
                      + SegmentsOfObjectsAhead(s.items, Len(s.items) + 1)]

MaxChunks == 4

BeginsongChoices ==
    { <<"\\", "b", "e", "g", "i", "n", "s", "o", "n", "g", "{", "T", "}">>,
      <<"\\", "b", "e", "g", "i", "n", "s", "o", "n", "g", "{", "T", "}", "[", "b", "y", "=", "{", "A", "}", "]">>,
      <<" ", "\\", "b", "e", "g", "i", "n", "s", "o", "n", "g", "{", "T", "}">>,
      <<"\\", "b", "e", "g", "i", "n", "s", "o", "n", "g", "{", "}">>,
      <<"x", "\\", "b", "e", "g", "i", "n", "s", "o", "n", "g", "{", "T", "}">>,
      <<>> }

StropheChunks ==
    { <<"\\", "c", "h", "o", "r", "d", "s", "o", "f", "f", "\n">>,
      <<"\\", "c", "h", "o", "r", "d", "s", "o", "n", "\n">>,
      <<"\\", "n", "u", "m", " ", "a", " ", "\\", "f", "i", "n", "\n">>,
      <<"\\", "c", "h", "o", "r", " ", "\\", "[", "C", "]", "{", "b", "}", "c", " ", "\\", "c", "l", "\n">>,
      <<"\\", "c", "v", "e", "r", "s", "e", " ", "b", " ", "\\", "c", "l", "\n">>,
      <<"\\", "r", "e", "p", "c", "h", "o", "r", "u", "s", "{", "\\", "r", "e", "p", "{", "2", "}", "}", "\n">>,
      <<"\\", "n", "u", "m", " ", "a", "\n">> }

InitLatex ==
    /\ DumpChordIdle
    /\ BodyIdle
    /\ AgamaIdle
    /\ ChordIdle
    /\ LatexIdle
    /\ NormIdle
    /\ PlainIdle
    /\ \E b \in BeginsongChoices : latex_text = b
    /\ n_chunks = 0
    /\ lpc = "typing"
    /\ latex_loaded = None
    /\ dump_heap = <<>>
    /\ dump_song = None
    /\ latex_dumped = None

TypeChunk ==
    /\ lpc = "typing"
    /\ n_chunks < MaxChunks
    /\ \E chunk \in StropheChunks : latex_text' = latex_text \o chunk
    /\ n_chunks' = n_chunks + 1
    /\ UNCHANGED <<lpc, latex_loaded, dump_heap, dump_song, latex_dumped,
                   chordVars, latexVars, normVars, plainVars, agamaVars, dumpChordVars, bodyVars>>

\* song = ModifiedSongsLatexFormat().loads(latex_text)
LatexLoad ==
    /\ lpc = "typing"
    /\ latex_loaded' = LatexLoads(latex_text)
    /\ lpc' = "loaded"
    /\ UNCHANGED <<latex_text, n_chunks, dump_heap, dump_song, latex_dumped,
                   chordVars, latexVars, normVars, plainVars, agamaVars, dumpChordVars, bodyVars>>

\* song.normalized()
LatexNormalize ==
    /\ lpc = "loaded"
    /\ IsSong(latex_loaded)
    /\ LET objects == LoadedObjects(latex_loaded)
           call == normalized(objects.heap, objects.next_oid, objects.song)
       IN  /\ dump_heap' = call.heap
           /\ dump_song' = call.outcome
    /\ lpc' = "normalized"
    /\ UNCHANGED <<latex_text, n_chunks, latex_loaded, latex_dumped,
                   chordVars, latexVars, normVars, plainVars, agamaVars, dumpChordVars, bodyVars>>

\* ModifiedSongsLatexFormat().dumps(song, chords=True)
LatexDump ==
    /\ lpc = "normalized"
    /\ IsSong(dump_song)
    /\ latex_dumped' = LatexDumps(dump_heap, dump_song)
    /\ lpc' = "dumped"
    /\ UNCHANGED <<latex_text, n_chunks, latex_loaded, dump_heap, dump_song,
                   chordVars, latexVars, normVars, plainVars, agamaVars, dumpChordVars, bodyVars>>

NextLatex ==
    \/ TypeChunk
    \/ LatexLoad
    \/ LatexNormalize
    \/ LatexDump

SpecLatex == InitLatex /\ [][NextLatex]_vars

----------------------------------------------------------------------------
(* dumps at work on songs that are built item by item: strophes, and       *)
(* StropheRepeats of the items built so far.                               *)

MaxDumpItems == 4

DumpMarks == {ChorusMark, NumberedChorusMark(1), NumberedStropheMark(1)}

DumpTexts == {<<"a">>, <<"b">>}

InitRepeats ==
    /\ DumpChordIdle
    /\ BodyIdle
    /\ AgamaIdle
    /\ ChordIdle
    /\ LatexIdle
    /\ NormIdle
    /\ PlainIdle
    /\ latex_text = <<>>
    /\ n_chunks = 0
    /\ lpc = "building"
    /\ latex_loaded = None
    /\ dump_heap = <<>>
    /\ dump_song = Song(<<TitleAnnotation(<<"T">>, 1)>>, <<>>)
    /\ latex_dumped = None

\* song.items.append(Strophe(mark, [PlainSegment(text)]))
AddStrophe ==
    /\ lpc = "building"
    /\ Len(dump_song.items) < MaxDumpItems
    /\ \E mark \in DumpMarks, text \in DumpTexts :
          dump_heap' = Append(dump_heap,
                              Strophe(mark, <<PlainSegment(text, Len(dump_heap) + 2)>>))
    /\ dump_song' = [dump_song EXCEPT !.items = Append(@, Len(dump_heap) + 1)]
    /\ UNCHANGED <<latex_text, n_chunks, lpc, latex_loaded, latex_dumped,
                   chordVars, latexVars, normVars, plainVars, agamaVars, dumpChordVars, bodyVars>>

\* song.items.append(StropheRepeat(song.items[k]))
AddStropheRepeat ==
    /\ lpc = "building"
    /\ Len(dump_song.items) < MaxDumpItems
    /\ \E k \in 1..Len(dump_song.items) :
          dump_heap' = Append(dump_heap, StropheRepeat(dump_song.items[k]))
    /\ dump_song' = [dump_song EXCEPT !.items = Append(@, Len(dump_heap) + 1)]
    /\ UNCHANGED <<latex_text, n_chunks, lpc, latex_loaded, latex_dumped,
                   chordVars, latexVars, normVars, plainVars, agamaVars, dumpChordVars, bodyVars>>

\* song.items.append(song.items[-1]): the last item once more.
AddLastItemAgain ==
    /\ lpc = "building"
    /\ dump_song.items # <<>>
    /\ Len(dump_song.items) < MaxDumpItems
    /\ dump_song' = [dump_song EXCEPT !.items = Append(@, @[Len(@)])]
    /\ UNCHANGED <<latex_text, n_chunks, lpc, latex_loaded, dump_heap, latex_dumped,
                   chordVars, latexVars, normVars, plainVars, agamaVars, dumpChordVars, bodyVars>>

\* ModifiedSongsLatexFormat().dumps(song, chords=True)
DumpSong ==
    /\ lpc = "building"
    /\ latex_dumped' = LatexDumps(dump_heap, dump_song)
    /\ lpc' = "dumped"
    /\ UNCHANGED <<latex_text, n_chunks, latex_loaded, dump_heap, dump_song,
                   chordVars, latexVars, normVars, plainVars, agamaVars, dumpChordVars, bodyVars>>

NextRepeats ==
    \/ AddStrophe
    \/ AddStropheRepeat
    \/ AddLastItemAgain
    \/ DumpSong

SpecRepeats == InitRepeats /\ [][NextRepeats]_vars

----------------------------------------------------------------------------
(* AgamaFormat (io.py:315-362): the chords on a row of their own above the *)
(* lyrics.                                                                 *)

\* text.ljust(n)
LJust(text, n) == text \o Spaces(n - Len(text))

\* text.endswith("\n")
EndsWithNewline(text) == text # <<>> /\ text[Len(text)] = "\n"

\* AgamaFormat.dump_segment with chords=True: the chord row, a newline and
\* the lyric row of one single-line segment.
agama_dump_segment(seg) ==
    IF seg.cls = "ChordedSegment"
    THEN LET chord_name == ChordToString(seg.chord)
             length == Max({Len(chord_name) + 1, Len(seg.text)})
         IN  LJust(chord_name, length) \o <<"\n">>
             \o (IF EndsWithNewline(seg.text) THEN seg.text ELSE LJust(seg.text, length))
    ELSE Spaces(Len(seg.text)) \o <<"\n">> \o seg.text

\* One chord line of _merge_lines, joined: the last piece loses the
\* whitespace at its right and gets the newline.
ChordLine(pieces) ==
    Join(Take(pieces, Len(pieces) - 1), <<>>)
    \o RStrip(pieces[Len(pieces)], WhitespaceChars) \o <<"\n">>

\* The loop of _merge_lines and what follows it.  merged is the text of the
\* lines that are complete, chord_line and main_line are chord_lines[-1]
\* and main_lines[-1]; chord_lines[-1][-1] of an empty list raises.
RECURSIVE MergeFrom(_, _, _, _)
MergeFrom(dumped_segments, merged, chord_line, main_line) ==
    IF dumped_segments = <<>>
    THEN IF chord_line = <<>> THEN IndexError
         ELSE Returns(merged \o ChordLine(chord_line) \o main_line)
    ELSE LET pair == SplitOnce(Head(dumped_segments), <<"\n">>)
         IN  IF EndsWithNewline(pair[2])
             THEN MergeFrom(Tail(dumped_segments),
                            merged \o ChordLine(Append(chord_line, pair[1]))
                                   \o main_line \o pair[2],
                            <<>>, <<>>)
             ELSE MergeFrom(Tail(dumped_segments), merged,
                            Append(chord_line, pair[1]), main_line \o pair[2])

\* AgamaFormat._merge_lines
_merge_lines(dumped_segments) == MergeFrom(dumped_segments, <<>>, <<>>, <<>>)

\* text.replace(old, new, 1)
ReplaceFirst(text, old, new) ==
    IF ~Contains(text, old) THEN text
    ELSE Take(text, Find(text, old)) \o new \o Drop(text, Find(text, old) + Len(old))

\* empty_line_pattern.sub("\n", text), the pattern being \n\s*\n.
RECURSIVE RemoveEmptyLines(_)
RemoveEmptyLines(text) ==
    LET m == FirstPartSeparator(text)
    IN  IF m[1] = 0 THEN text
        ELSE Take(text, m[1] - 1) \o <<"\n">> \o RemoveEmptyLines(Drop(text, m[2]))

\* empty_startline_pattern.sub("", text), the pattern being ^\s*\n: the
\* whitespace at the start goes, up to its last newline.
RemoveEmptyStartLine(text) ==
    LET newlines == {q \in 1..LeadingRun(text, WhitespaceChars) : text[q] = "\n"}
    IN  IF newlines = {} THEN text ELSE Drop(text, Max(newlines))

\* text.strip("\n")
StripNewlines(text) == LStrip(RStrip(text, {"\n"}), {"\n"})

\* body_with_mark of AgamaFormat.dump_strophe with chords=True.
BodyWithMark(raw_body, init, indenter) ==
    RemoveEmptyStartLine(
        RemoveEmptyLines(
            StripNewlines(ReplaceFirst(indenter \o IndentLines(raw_body, indenter),
                                <<"\n">> \o indenter, <<"\n">> \o init))))

\* AgamaFormat.dump_strophe with chords=True
agama_dump_strophe(strophe, indent) ==
    LET lines == single_line_segments(strophe.segments)
        raw_body == _merge_lines([k \in 1..Len(lines) |-> agama_dump_segment(lines[k])])
    IN  IF IsRaised(raw_body) THEN raw_body
        ELSE Returns(BodyWithMark(raw_body.value,
                                  dump_strophe_mark(strophe.mark, indent),
                                  Spaces(indent)))

----------------------------------------------------------------------------
(* Strophes at work: a song whose last strophe is built segment by         *)
(* segment; the segments are split into lines, or AgamaFormat dumps the    *)
(* strophes of the song.                                                   *)

MaxSegments == 3

ChordCmaj7 == Chord(<<"C">>, <<MajorSeventh>>)

SegmentTexts == {<<>>, <<"a", "b">>, <<"a", "\n">>, <<"a", "\n", "b">>, <<"\n">>}

SegmentChoices ==
    {PlainSegment(text, 0) : text \in SegmentTexts}
    \cup {ChordedSegment(ChordC, text, 0) : text \in SegmentTexts}
    \cup {ChordedSegment(ChordCmaj7, <<"a">>, 0)}

AgamaMarks == {NumberedStropheMark(1), ChorusMark, EmptyStropheMark}

\* A strophe with a mark that is longer than those of AgamaMarks.
LongMarkStrophe == Strophe(NumberedStropheMark(10), <<PlainSegment(<<"x">>, 0)>>)

InitAgama ==
    /\ DumpChordIdle
    /\ BodyIdle
    /\ ChordIdle
    /\ LatexIdle
    /\ NormIdle
    /\ PlainIdle
    /\ SongLatexIdle
    /\ \E mark \in AgamaMarks, first \in {<<>>, <<LongMarkStrophe>>} :
          agama_song = Song(<<>>, first \o <<Strophe(mark, <<>>)>>)
    /\ apc = "building"
    /\ split = None
    /\ agama_dumped = None

\* song.items[-1].segments.append(seg)
AddSegment ==
    /\ apc = "building"
    /\ Len(agama_song.items[Len(agama_song.items)].segments) < MaxSegments
    /\ \E seg \in SegmentChoices :
          agama_song' = [agama_song EXCEPT
                            !.items[Len(agama_song.items)].segments = Append(@, seg)]
    /\ UNCHANGED <<apc, split, agama_dumped,
                   chordVars, latexVars, normVars, plainVars, songLatexVars, dumpChordVars, bodyVars>>

\* [seg.splitlines() for seg in song.items[-1].segments]
SplitLines ==
    /\ apc = "building"
    /\ split' = [k \in 1..Len(agama_song.items[Len(agama_song.items)].segments) |->
                    splitlines(agama_song.items[Len(agama_song.items)].segments[k])]
    /\ apc' = "split"
    /\ UNCHANGED <<agama_song, agama_dumped,
                   chordVars, latexVars, normVars, plainVars, songLatexVars, dumpChordVars, bodyVars>>

\* AgamaFormat().dump_strophe(item, indent, chords=True) for each item of
\* the song, indent being the song's own (dump_song_items, io.py:276-285).
AgamaDumpStrophes ==
    /\ apc = "building"
    /\ agama_dumped' = [k \in 1..Len(agama_song.items) |->
                           agama_dump_strophe(agama_song.items[k],
                                              _determine_strophe_indent(agama_song.items))]
    /\ apc' = "dumped"
    /\ UNCHANGED <<agama_song, split,
                   chordVars, latexVars, normVars, plainVars, songLatexVars, dumpChordVars, bodyVars>>

NextAgama ==
    \/ AddSegment
    \/ SplitLines
    \/ AgamaDumpStrophes

SpecAgama == InitAgama /\ [][NextAgama]_vars

----------------------------------------------------------------------------
(* loads at work on the repeat commands: a song of two strophes, and       *)
(* \repchorus, \repchorusi and \repchorusii after them in the forms they   *)
(* take.                                                                   *)

MaxRepeatCommands == 3

TwoStrophes == <<"\\", "b", "e", "g", "i", "n", "s", "o", "n", "g", "{", "T", "}", "\\", "c", "h", "o", "r", " ", "a", " ", "\\", "c", "l", "\n", "\\", "n", "u", "m", " ", "b", " ", "\\", "f", "i", "n", "\n">>

RepeatCommandChoices ==
    { <<"\\", "r", "e", "p", "c", "h", "o", "r", "u", "s", "{", "}", "\n">>,
      <<"\\", "r", "e", "p", "c", "h", "o", "r", "u", "s", "\n">>,
      <<"\\", "r", "e", "p", "c", "h", "o", "r", "u", "s", "{", "\\", "r", "e", "p", "{", "2", "}", "}", "\n">>,
      <<"\\", "r", "e", "p", "c", "h", "o", "r", "u", "s", "i", "{", "\\", "r", "e", "p", "{", "3", "}", "}", "\n">>,
      <<"\\", "r", "e", "p", "c", "h", "o", "r", "u", "s", "i", "i", "{", "x", "}", "\n">>,
      <<"\\", "r", "e", "p", "c", "h", "o", "r", "u", "s", "i", "{", "x", "\\", "r", "e", "p", "{", "2", "}", "}", "\n">> }

InitRepchorus ==
    /\ DumpChordIdle
    /\ BodyIdle
    /\ ChordIdle
    /\ LatexIdle
    /\ NormIdle
    /\ PlainIdle
    /\ AgamaIdle
    /\ latex_text = TwoStrophes
    /\ n_chunks = 0
    /\ lpc = "typing"
    /\ latex_loaded = None
    /\ dump_heap = <<>>
    /\ dump_song = None
    /\ latex_dumped = None

TypeRepeatCommand ==
    /\ lpc = "typing"
    /\ n_chunks < MaxRepeatCommands
    /\ \E command \in RepeatCommandChoices : latex_text' = latex_text \o command
    /\ n_chunks' = n_chunks + 1
    /\ UNCHANGED <<lpc, latex_loaded, dump_heap, dump_song, latex_dumped,
                   chordVars, latexVars, normVars, plainVars, agamaVars, dumpChordVars, bodyVars>>

NextRepchorus ==
    \/ TypeRepeatCommand
    \/ LatexLoad

SpecRepchorus == InitRepchorus /\ [][NextRepchorus]_vars

----------------------------------------------------------------------------
(* dump_chord at work (io.py:798-809): a chord string is typed and parsed  *)
(* by DefaultChordParser, the chord is dumped by ModifiedSongsLatexFormat  *)
(* and the dump is parsed by ModifiedSongsLatexChordParser.                *)

InitDumpChord ==
    /\ chord_str = <<>>
    /\ pc = "parse"
    /\ root = <<>>
    /\ modif_str = <<>>
    /\ modifiers = <<>>
    /\ parsed = None
    /\ reparsed = None
    /\ LatexIdle
    /\ NormIdle
    /\ PlainIdle
    /\ SongLatexIdle
    /\ AgamaIdle
    /\ DumpChordIdle
    /\ BodyIdle

\* ModifiedSongsLatexChordParser().parse(ModifiedSongsLatexFormat().dump_chord(chord))
\* of the returned chord; the chord parser of the format reads the chord
\* between \[ and ] (io.py:669-677).
DumpChordAndParse ==
    /\ pc = "returned"
    /\ chord_dumped' = dump_chord(parsed)
    /\ chord_loaded' = LatexChordParse(ChordItems(dump_chord(parsed)))
    /\ pc' = "dumped"
    /\ UNCHANGED <<chord_str, root, modif_str, modifiers, parsed, reparsed,
                   latexVars, normVars, plainVars, songLatexVars, agamaVars, bodyVars>>

NextDumpChord ==
    \/ TypeChar
    \/ ParseRoot
    \/ ParseModifiersStep
    \/ ParseReturn
    \/ DumpChordAndParse

SpecDumpChord == InitDumpChord /\ [][NextDumpChord]_vars

----------------------------------------------------------------------------
(* The parser of strophe bodies at work (io.py:548-667): a body is typed   *)
(* token by token; _parse_strophe_part is called at each of its positions, *)
(* or _parse_strophe_segments on the whole of it.                          *)

MaxBodyLen == 5

BodyTokens ==
    { <<"a">>, <<"{">>, <<"}">>, <<"[">>, <<"]">>, <<"\\">>, <<"\\", "[", "C", "]">>, <<"\\", "u", "v">> }

InitBody ==
    /\ ChordIdle
    /\ LatexIdle
    /\ NormIdle
    /\ PlainIdle
    /\ SongLatexIdle
    /\ AgamaIdle
    /\ DumpChordIdle
    /\ body_text = <<>>
    /\ bpc = "typing"
    /\ parsed_parts = <<>>
    /\ body_segments = None

TypeToken ==
    /\ bpc = "typing"
    /\ \E token \in BodyTokens :
          /\ Len(body_text) + Len(token) <= MaxBodyLen
          /\ body_text' = body_text \o token
    /\ UNCHANGED <<bpc, parsed_parts, body_segments,
                   chordVars, latexVars, normVars, plainVars, songLatexVars, agamaVars,
                   dumpChordVars>>

\* [self._parse_strophe_part(body, pos) for pos in range(len(body))]
ParseParts ==
    /\ bpc = "typing"
    /\ parsed_parts' = [k \in 1..Len(body_text) |-> _parse_strophe_part(body_text, k - 1)]
    /\ bpc' = "parts"
    /\ UNCHANGED <<body_text, body_segments,
                   chordVars, latexVars, normVars, plainVars, songLatexVars, agamaVars,
                   dumpChordVars>>

\* self._parse_strophe_segments(body, chords_on=True)
ParseBody ==
    /\ bpc = "typing"
    /\ body_segments' = _parse_strophe_segments(body_text, TRUE)
    /\ bpc' = "parsed"
    /\ UNCHANGED <<body_text, parsed_parts,
                   chordVars, latexVars, normVars, plainVars, songLatexVars, agamaVars,
                   dumpChordVars>>

NextBody ==
    \/ TypeToken
    \/ ParseParts
    \/ ParseBody

SpecBody == InitBody /\ [][NextBody]_vars

----------------------------------------------------------------------------
(* Claims about DefaultChordParser.                                        *)

IsChord(c) == c # None /\ c # SongParseError

\* A result made only of a GenericChordModifier.
GenericOnly(c) ==
    /\ c.modifiers # <<>>
    /\ \A i \in 1..Len(c.modifiers) : c.modifiers[i].kind = "GenericChordModifier"

\* C1: for every string on which parse succeeds and whose result is not made
\* only of a GenericChordModifier, parsing the rendering of the result gives
\* the same chord: the same root and the same modifiers in the same order.
C1_RoundTrip ==
    (pc = "reparsed" /\ ~GenericOnly(parsed)) => reparsed = parsed

\* Every index group of the chord has a non-empty content.
NoEmptyIndex(items) ==
    \A i \in 1..Len(items) :
        items[i].cmd \in {"hidx", "didx"} => items[i].content # <<>>

\* C2 as stated: for every LaTeX-notation chord, the LaTeX parser's result
\* on the LaTeX text equals the default parser's result on the plain text
\* (every \shrp{} replaced by #, every \hidx{x} and \didx{x} by x); both
\* succeed or both fail.
C2_LatexEqualsPlain ==
    latex_parsed # None => latex_parsed = plain_parsed

\* C2, amended: the same for chords whose index groups all have a non-empty
\* content.
C2_LatexEqualsPlainNonEmptyIndex ==
    (latex_parsed # None /\ NoEmptyIndex(latex_items)) => latex_parsed = plain_parsed

\* A chord with a sharp inside an index group has been parsed in both
\* notations, and the parse succeeded with a modifier.
C2_Witness ==
    /\ latex_parsed # None
    /\ IsChord(latex_parsed)
    /\ latex_parsed.modifiers # <<>>
    /\ \E i \in 1..Len(latex_items) :
          /\ latex_items[i].cmd = "hidx"
          /\ Len(latex_items[i].content) = 2
          /\ latex_items[i].content[2] = Sharp

\* The root-tone tokens: a letter A-H, optionally followed by # or b.
IsToneToken(t) ==
    \/ Len(t) = 1 /\ t[1] \in ToneLetters
    \/ Len(t) = 2 /\ t[1] \in ToneLetters /\ t[2] \in {"#", "b"}

TonePrefixLengths(s) == {k \in 1..Len(s) : IsToneToken(Take(s, k))}

LongestOf(lengths) == CHOOSE k \in lengths : \A l \in lengths : l <= k

\* C3: parse raises SongParseError exactly when the string is empty or does
\* not begin with a root-tone token; for every other string it goes on to
\* return a Chord whose root is the longest root-tone prefix of the string.
C3_ParseFailsExactlyWithoutRoot ==
    /\ pc = "raised" => (parsed = SongParseError /\ TonePrefixLengths(chord_str) = {})
    /\ pc \in {"modifiers", "exhausted", "returned", "reparsed"} =>
          /\ TonePrefixLengths(chord_str) # {}
          /\ root = Take(chord_str, LongestOf(TonePrefixLengths(chord_str)))
          /\ parsed # SongParseError
    /\ pc \in {"returned", "reparsed"} =>
          /\ IsChord(parsed)
          /\ parsed.root = Take(chord_str, LongestOf(TonePrefixLengths(chord_str)))

\* A chord string with a two-character root has been parsed.
C3_Witness ==
    /\ pc = "returned"
    /\ IsChord(parsed)
    /\ Len(parsed.root) = 2
    /\ parsed.modifiers # <<>>

\* The token the fixed order of the patterns selects at the start of a text:
\* its kind and the length of the text it takes, <<"none", 0>> when no
\* pattern matches there.
ExpectedToken(s) ==
    LET at(i) == IF i <= Len(s) THEN s[i] ELSE "" IN
    IF at(1) = "m" /\ at(2) = "a" /\ at(3) = "j"
        THEN <<"MajorSeventh", IF at(4) = "7" THEN 4 ELSE 3>>
    ELSE IF at(1) = "m" THEN <<"Minor", 1>>
    ELSE IF at(1) = "7" THEN <<"DominantSeventh", 1>>
    ELSE IF at(1) \in Digits
        THEN <<"AddedNote", CHOOSE n \in 1..Len(s) :
                                /\ \A i \in 1..n : s[i] \in Digits
                                /\ at(n + 1) \notin Digits>>
    ELSE IF at(1) = "s" /\ at(2) = "u" /\ at(3) = "s" /\ at(4) \in Digits
        THEN <<"Suspended", 4>>
    ELSE IF at(1) = "+" THEN <<"Altered", IF at(2) \in Digits THEN 2 ELSE 1>>
    ELSE IF at(1) = "d" /\ at(2) = "i" /\ at(3) = "m"
        THEN <<"Altered", IF at(4) \in Digits THEN 4 ELSE 3>>
    ELSE IF at(1) = "/" /\ at(2) \in ToneLetters
        THEN <<"BassNote", IF at(3) \in {"#", "b"} THEN 3 ELSE 2>>
    ELSE <<"none", 0>>

GenericOnlyLast(mods) ==
    \A i \in 1..Len(mods) : mods[i].kind = "GenericChordModifier" => i = Len(mods)

\* C4: parse_modifiers tokenizes the text after the root left to right; each
\* pass emits the modifier of the first pattern, in the fixed order, that
\* matches at the current position and consumes exactly the matched text;
\* when no pattern matches, the whole remaining text becomes one
\* GenericChordModifier and consumption stops, so a GenericChordModifier
\* occurs at most once and only as the last modifier.
C4_Tokenization ==
    /\ [](GenericOnlyLast(modifiers) /\ (IsChord(parsed) => GenericOnlyLast(parsed.modifiers)))
    /\ [][(pc = "modifiers" /\ modifiers' # modifiers) =>
            LET token == ExpectedToken(modif_str)
                new == modifiers'[Len(modifiers')]
            IN  /\ modifiers' = Append(modifiers, new)
                /\ IF token[1] = "none"
                   THEN /\ new = GenericChordModifier(modif_str)
                        /\ pc' = "exhausted"
                   ELSE /\ new.kind = token[1]
                        /\ modif_str' = Drop(modif_str, token[2])
                        /\ pc' = "modifiers"]_vars
    /\ [][(pc = "exhausted") => (modifiers' = modifiers /\ pc' \in {"exhausted", "returned"})]_vars

\* A known modifier followed by the fallback modifier has been yielded.
C4_Witness ==
    /\ pc = "exhausted"
    /\ Len(modifiers) = 2
    /\ modifiers[1].kind = "MajorSeventh"
    /\ modifiers[Len(modifiers)].kind = "GenericChordModifier"

----------------------------------------------------------------------------
(* Claims about Song.normalized.                                           *)

\* The items of a list, as a set.
ItemSet(items) == {items[k] : k \in 1..Len(items)}

\* The identities of the segments held by the objects ids.
SegmentObjects(h, ids) ==
    UNION {{h[id].segments[k].oid : k \in 1..Len(h[id].segments)} : id \in ids}

\* A call of normalized() has just returned or raised: the song it was
\* called on, and what it produced.
CallOnSong == npc = "build" /\ npc' = "normalized"
CallOnResult == npc = "normalized" /\ npc' = "renormalized"

\* C5: normalized() is idempotent: when s.normalized() succeeds, normalizing
\* its result succeeds too and gives a Song equal (==) to that result: equal
\* annotations, equal items in the same order.
C5_Idempotent ==
    npc = "renormalized" => IsSong(result2) /\ SongsEqual(heap, result, result2)

\* The part of C5 that holds: the items of the second result are equal, one
\* by one, to the items of the first.
C5_ItemsIdempotent ==
    npc = "renormalized" =>
        /\ IsSong(result2)
        /\ SongsEqual(heap, Song(<<>>, result.items), Song(<<>>, result2.items))

\* No object the song s reaches is changed from heap h to heap h2, and the
\* outcome out shares no strophe and no segment object with s.
Untouched(h, s, h2, out) ==
    /\ \A id \in 1..Len(h) : h2[id] = h[id]
    /\ IsSong(out) =>
          LET mine == ReachableFrom(h, ItemSet(s.items))
              theirs == ReachableFrom(h2, ItemSet(out.items))
          IN  /\ mine \cap theirs = {}
              /\ SegmentObjects(h, mine) \cap SegmentObjects(h2, theirs) = {}
              /\ \A a \in 1..Len(s.annotations), b \in 1..Len(out.annotations) :
                    s.annotations[a].oid # out.annotations[b].oid

\* C6: normalized() never mutates the Song it is called on: after the call
\* has returned or raised, the song's annotations and items, every strophe's
\* mark and segment list and the referents of its repeats are what they were,
\* and no strophe or segment object of the result is one of the song's.
C6_OriginalUntouched ==
    /\ [][CallOnSong => song' = song /\ Untouched(heap, song, heap', result')]_vars
    /\ [][CallOnResult => result' = result /\ Untouched(heap, result, heap', result2')]_vars

\* A call has returned a result with a linked repeat, an inferred repeat and
\* a spliced strophe's segments, from a song that held a placeholder twice.
C6_Witness ==
    /\ npc = "normalized"
    /\ IsSong(result)
    /\ \E k \in 1..Len(result.items) : heap[result.items[k]].cls = "StropheRepeat"
    /\ \E k \in 1..Len(result.items) : Len(segments_of(heap, result.items[k])) = 2
    /\ \E k \in 2..Len(song.items) : song.items[k] = song.items[k - 1]

\* The kinds of the marks of the items, when all of them are strophes, at
\* least three, are Numbered, Chorus, Numbered, Numbered, ...
ChorusPattern(h, items) ==
    /\ Len(items) >= 3
    /\ \A k \in 1..Len(items) :
          /\ IsStrophe(h[items[k]])
          /\ mark_of(h, items[k]).cls =
                IF k = 2 THEN "ChorusMark" ELSE "NumberedStropheMark"

\* C7: chorus inference. When normalized() returns for a song whose items
\* are all strophes, at least three, of mark kinds Numbered, Chorus,
\* Numbered, Numbered, ..., the result is the first verse, the chorus, and
\* then every later verse immediately followed by a StropheRepeat of that
\* chorus; for any other sequence of items nothing is inserted: the result
\* is the list the linking of repeats has produced.
C7_ChorusInference ==
    (npc = "normalized" /\ IsSong(result)) =>
        IF ChorusPattern(heap, song.items)
        THEN /\ Len(result.items) = 2 * Len(song.items) - 2
             /\ result.items[1] = linked[1]
             /\ result.items[2] = linked[2]
             /\ mark_of(heap, result.items[2]) = ChorusMark
             /\ \A k \in 3..Len(song.items) :
                   /\ result.items[2 * k - 3] = linked[k]
                   /\ heap[result.items[2 * k - 2]].cls = "StropheRepeat"
                   /\ heap[result.items[2 * k - 2]].repeated_strophe = result.items[2]
        ELSE result.items = linked

\* Marks 1, Chorus, 1, 1 have given six items.
C7_Witness ==
    /\ npc = "normalized"
    /\ IsSong(result)
    /\ ChorusPattern(heap, song.items)
    /\ Len(song.items) = 4
    /\ Len(result.items) = 6
    /\ heap[result.items[6]].cls = "StropheRepeat"

\* The positions of the strophes of items whose mark is lettered.
LetteredPositions(h, items) ==
    {k \in 1..Len(items) :
        IsStrophe(h[items[k]]) /\ mark_of(h, items[k]).cls = "LetteredStropheMark"}

\* The position of the last strophe of items, 0 when there is none.
LastStrophePosition(h, items) ==
    LET S == {k \in 1..Len(items) : IsStrophe(h[items[k]])}
    IN  IF S = {} THEN 0 ELSE Max(S)

\* The letter C occurs once among the lettered marks, on the last strophe.
COnceAndLast(h, items) ==
    /\ Cardinality({k \in LetteredPositions(h, items) :
                        mark_of(h, items[k]).letter = "C"}) = 1
    /\ LastStrophePosition(h, items) \in LetteredPositions(h, items)
    /\ mark_of(h, items[LastStrophePosition(h, items)]).letter = "C"

\* The marks of the result are the marks of the song, but for CodaMark on
\* the last strophe when coda is TRUE.
MarksKept(coda) ==
    /\ Len(result.items) = Len(song.items)
    /\ \A k \in 1..Len(song.items) :
          IsStrophe(heap[song.items[k]]) =>
              mark_of(heap, result.items[k]) =
                  IF coda /\ k = LastStrophePosition(heap, song.items)
                  THEN CodaMark
                  ELSE mark_of(heap, song.items[k])

EarlierWithEqualMark(h, items, i) ==
    {j \in 1..(i - 1) : IsStrophe(h[items[j]]) /\ mark_of(h, items[j]) = mark_of(h, items[i])}

\* A placeholder without segments.
IsBarePlaceholder(obj) == obj.cls = "RepeatStropheWithSameMark" /\ obj.segments = <<>>

\* Where item i of the copied list stands in the result: at i, or, when
\* chorus inference has inlaid its repeats, at 2i - 3 from the third on.
PositionInResult(i) ==
    IF Len(result.items) = Len(copied) \/ i <= 2 THEN i ELSE 2 * i - 3

HasUnlinkablePlaceholder(h, items) ==
    \E i \in 1..Len(items) :
        /\ h[items[i]].cls = "RepeatStropheWithSameMark"
        /\ EarlierWithEqualMark(h, items, i) = {}

\* C10: when a song holds a placeholder that no strophe of equal mark
\* precedes, normalized() raises an error and returns no Song, whatever the
\* other items are, and the song is left unchanged.
C10_UnlinkableRaises ==
    /\ [](npc = "normalized" /\ HasUnlinkablePlaceholder(heap, song.items)
            => result \in {ValueError, UnboundLocalError})
    /\ [][CallOnSong /\ HasUnlinkablePlaceholder(heap, song.items)
            => song' = song /\ \A id \in 1..Len(heap) : heap'[id] = heap[id]]_vars

\* The lookup has failed for the last of four items, after a placeholder
\* that was linked.
C10_Witness ==
    /\ npc = "normalized"
    /\ result = ValueError
    /\ Len(song.items) = 4
    /\ heap[song.items[4]].cls = "RepeatStropheWithSameMark"
    /\ EarlierWithEqualMark(heap, song.items, 4) = {}
    /\ \E i \in 1..3 :
          /\ heap[song.items[i]].cls = "RepeatStropheWithSameMark"
          /\ EarlierWithEqualMark(heap, song.items, i) # {}

----------------------------------------------------------------------------
(* Claims about the splicing of repeats and the carrying over of chords.   *)

\* The texts of the segments, one after the other.
RECURSIVE JoinTexts(_)
JoinTexts(segments) ==
    IF segments = <<>> THEN <<>> ELSE Head(segments).text \o JoinTexts(Tail(segments))

\* A placeholder that carries segments of its own.
IsSplicedPlaceholder(obj) == obj.cls = "RepeatStropheWithSameMark" /\ obj.segments # <<>>

\* The segments of the referent ref that hold the text.
SegmentsHolding(ref, text) == {k \in 1..Len(ref) : Contains(ref[k].text, text)}

\* The referent up to its first segment holding the leading text of own,
\* that segment cut just before the leading text, then own.
SplicedAtLeadingText(ref, own) ==
    LET k == Min(SegmentsHolding(ref, own[1].text))
    IN  SubSeq(ref, 1, k - 1)
        \o <<[ref[k] EXCEPT !.text = Take(@, Find(@, own[1].text))]>>
        \o own

\* What the splicing of the placeholder at position i of the copied list
\* has to fulfil: got are the segments of the strophe that replaced it.
SplicedAsStated(i, got) ==
    LET j == Max(EarlierWithEqualMark(heap, song.items, i))
        ref == SegmentValues(segments_of(heap, song.items[j]))
        own == SegmentValues(heap[song.items[i]].segments)
    IN  /\ heap[linked[i]].cls = "Strophe"
        /\ heap[linked[i]].mark = heap[song.items[i]].mark
        /\ IF SegmentsHolding(ref, own[1].text) # {}
           THEN got = SplicedAtLeadingText(ref, own)
           ELSE JoinTexts(got) = JoinTexts(ref) \o JoinTexts(own)
        /\ heap[song.items[j]].cls = "Strophe" =>
              SegmentValues(before_fill[PositionInResult(j)]) = ref

\* C11: repeat splicing. When normalized() returns, a placeholder that
\* carries segments has been replaced by a Strophe of its mark whose
\* segments are the referent's up to the first one containing the
\* placeholder's leading text, that one cut just before the leading text,
\* and then the placeholder's; the referent keeps all its segments; when the
\* leading text occurs nowhere in the referent, no text of the referent is
\* lost.
C11_RepeatSplicing ==
    (npc = "normalized" /\ IsSong(result)) =>
        \A i \in 1..Len(song.items) :
            IsSplicedPlaceholder(heap[song.items[i]]) =>
                SplicedAsStated(i, SegmentValues(before_fill[PositionInResult(i)]))

\* The part of C11 that holds: the splice when the leading text occurs in
\* the referent.
C11_SplicedWhereTextOccurs ==
    (npc = "normalized" /\ IsSong(result)) =>
        \A i \in 1..Len(song.items) :
            (/\ IsSplicedPlaceholder(heap[song.items[i]])
             /\ SegmentsHolding(
                    SegmentValues(segments_of(heap,
                        song.items[Max(EarlierWithEqualMark(heap, song.items, i))])),
                    heap[song.items[i]].segments[1].text) # {})
            => SplicedAsStated(i, SegmentValues(before_fill[PositionInResult(i)]))

\* The positions of two strophes of the result with no strophe between.
ConsecutiveStrophes ==
    {pq \in (1..Len(result.items)) \X (1..Len(result.items)) :
        /\ pq[1] < pq[2]
        /\ IsStrophe(heap[result.items[pq[1]]])
        /\ IsStrophe(heap[result.items[pq[2]]])
        /\ \A k \in (pq[1] + 1)..(pq[2] - 1) : ~IsStrophe(heap[result.items[k]])}

\* The later strophe began with a PlainSegment and held a ChordedSegment,
\* and the earlier strophe ended with a ChordedSegment.
CarriesOver(earlier, later) ==
    /\ later # <<>>
    /\ later[1].cls = "PlainSegment"
    /\ \E k \in 1..Len(later) : later[k].cls = "ChordedSegment"
    /\ earlier # <<>>
    /\ earlier[Len(earlier)].cls = "ChordedSegment"

\* C12: chord carry-over. After normalized(), for each two consecutive
\* strophes of which the later began with a PlainSegment and held a
\* ChordedSegment and the earlier ended with a ChordedSegment, the first
\* segment of the later is a ChordedSegment of the same text with the chord
\* of the last segment of the earlier, also when the later strophe is a
\* chorus that StropheRepeat items further on refer to.
C12_ChordCarryOver ==
    (npc = "normalized" /\ IsSong(result)) =>
        \A pq \in ConsecutiveStrophes :
            LET earlier == before_fill[pq[1]]
                later == before_fill[pq[2]]
                first == segments_of(heap, result.items[pq[2]])[1]
            IN  CarriesOver(earlier, later) =>
                    /\ first.cls = "ChordedSegment"
                    /\ first.text = later[1].text
                    /\ first.chord = earlier[Len(earlier)].chord

\* The part of C12 that holds: the carry-over into the strophes that no
\* StropheRepeat of the result refers to and that are no StropheRepeat.
C12_CarryOverWithoutRepeats ==
    (npc = "normalized" /\ IsSong(result)) =>
        \A pq \in ConsecutiveStrophes :
            LET earlier == before_fill[pq[1]]
                later == before_fill[pq[2]]
                first == segments_of(heap, result.items[pq[2]])[1]
            IN  (/\ CarriesOver(earlier, later)
                 /\ \A k \in 1..Len(result.items) :
                       heap[result.items[k]].cls = "StropheRepeat" =>
                           ShownObject(heap, result.items[k]) # ShownObject(heap, result.items[pq[2]]))
                => /\ first.cls = "ChordedSegment"
                   /\ first.text = later[1].text
                   /\ first.chord = earlier[Len(earlier)].chord

----------------------------------------------------------------------------
(* Claims about the plain dialect, DefaultFormat.                          *)

\* loads has been called on song_text.
LoadsCalled == ppc \in {"loaded", "dumped", "reloaded"}

\* The line is a heading by the words of the contract: it holds " - "
\* exactly once, or else ": " exactly once.
HeadingMarkerOf(line) ==
    IF Count(line, heading_markers[1]) = 1 THEN heading_markers[1]
    ELSE IF Count(line, heading_markers[2]) = 1 THEN heading_markers[2]
    ELSE <<>>

IsHeadingLine(part) == ~Contains(part, <<"\n">>) /\ HeadingMarkerOf(part) # <<>>

\* The author and the title around the marker of a heading line.
HeadingAround(line) ==
    LET marker == HeadingMarkerOf(line)
        at == Find(line, marker)
    IN  << AuthorAnnotation(Strip(Take(line, at)), 0),
           TitleAnnotation(Strip(Drop(line, at + Len(marker))), 0) >>

\* What the heading detection of loads does with the first part.
HeadingDetected(part) ==
    IF ~Contains(part, <<"\n">>) THEN _try_parse_heading(part) ELSE Returns(<<>>)

\* C13: a first part that is a single line with exactly one " - " (or else
\* exactly one ": ") gives one AuthorAnnotation and one TitleAnnotation with
\* the stripped text around the marker and is not parsed as a strophe; any
\* other first part gives no heading annotation and is parsed as a strophe;
\* the heading detection raises nothing.
C13_Heading ==
    (LoadsCalled /\ _split_song_parts(song_text) # <<>>) =>
        LET parts == _split_song_parts(song_text)
            detected == HeadingDetected(parts[1])
            expected == IF IsHeadingLine(parts[1]) THEN HeadingAround(parts[1]) ELSE <<>>
        IN  /\ ~IsRaised(detected)
            /\ detected.value = expected
            /\ IsSong(loaded) =>
                  /\ loaded.annotations = expected
                  /\ Len(loaded.items) = Len(parts) - (IF expected = <<>> THEN 0 ELSE 1)

\* The part of C13 that holds: whenever the heading detection raises
\* nothing, its outcome is the stated one.
C13_HeadingUnlessRaised ==
    (LoadsCalled /\ _split_song_parts(song_text) # <<>>
        /\ ~IsRaised(HeadingDetected(_split_song_parts(song_text)[1]))) =>
        LET parts == _split_song_parts(song_text)
            expected == IF IsHeadingLine(parts[1]) THEN HeadingAround(parts[1]) ELSE <<>>
        IN  /\ HeadingDetected(parts[1]).value = expected
            /\ IsSong(loaded) =>
                  /\ loaded.annotations = expected
                  /\ Len(loaded.items) = Len(parts) - (IF expected = <<>> THEN 0 ELSE 1)

\* The part of song_text that became the k-th item of the loaded song.
PartOfItem(k) ==
    LET parts == _split_song_parts(song_text)
    IN  parts[Len(parts) - Len(loaded.items) + k]

\* The body of a strophe part as _parse_strophe splits it into segments.
BodyOfPart(part) == _normalize_strophe_whitespace(_parse_strophe_mark(part).body)

\* The segment of the chord that opens at position open of the body b and
\* reaches to position stop: the chord between the brackets, then the text.
ChordedSegmentAt(b, open, stop) ==
    LET close == Min({i \in (open + 1)..stop : b[i] = "]"})
    IN  ChordedSegment(parse(SubSeq(b, open + 1, close - 1)), SubSeq(b, close + 1, stop), 0)

\* The segments the contract names for the body b: the text ahead of the
\* first "[" unless it is empty, then one segment per "[".
SegmentsByBrackets(b) ==
    LET opens == Sorted({i \in 1..Len(b) : b[i] = "["})
        n == Len(opens)
        lead == IF n = 0 THEN b ELSE SubSeq(b, 1, opens[1] - 1)
    IN  (IF lead # <<>> THEN <<PlainSegment(lead, 0)>> ELSE <<>>)
        \o [j \in 1..n |->
              ChordedSegmentAt(b, opens[j], IF j < n THEN opens[j + 1] - 1 ELSE Len(b))]

\* C14: the segments of every strophe that loads returns are a PlainSegment
\* for the text ahead of the first "[" of its body, left out when that text
\* is empty, and then one ChordedSegment per "[chord]" with the parsed chord
\* and the text up to the next "[".
C14_BodySegments ==
    (LoadsCalled /\ IsSong(loaded)) =>
        \A k \in 1..Len(loaded.items) :
            loaded.items[k].segments = SegmentsByBrackets(BodyOfPart(PartOfItem(k)))

\* A strophe whose body begins with a chord has been loaded as two
\* ChordedSegments, and one whose body has text ahead of the first chord
\* with a PlainSegment at its head.
C14_Witness ==
    /\ LoadsCalled
    /\ IsSong(loaded)
    /\ Len(loaded.items) = 2
    /\ loaded.items[1].segments =
          << ChordedSegment(ChordC, <<"a", " ">>, 0), ChordedSegment(ChordG, <<"b">>, 0) >>
    /\ loaded.items[2].segments =
          << PlainSegment(<<"x", " ">>, 0),
             ChordedSegment(ChordC, <<"a", " ">>, 0), ChordedSegment(ChordG, <<"b">>, 0) >>

\* The parts of song_text that are strophes by the words of the contract:
\* all of them but a heading line at the head.
StropheParts ==
    LET parts == _split_song_parts(song_text)
    IN  IF parts # <<>> /\ IsHeadingLine(parts[1]) THEN Tail(parts) ELSE parts

\* Some "[" of the part has no "]" before the next "[" or the end.
HasUnclosedBracket(part) ==
    \E i \in 1..Len(part) :
        /\ part[i] = "["
        /\ \A j \in (i + 1)..Len(part) :
              part[j] = "]" => \E m \in (i + 1)..(j - 1) : part[m] = "["

\* C15: when a "[" of a strophe is not followed by a "]" before the next
\* "[" or the end of the strophe, loads raises SongParseError.
C15_MismatchedBrackets ==
    (LoadsCalled /\ \E k \in 1..Len(StropheParts) : HasUnclosedBracket(StropheParts[k]))
        => loaded = SongParseError

\* The part of C15 that holds: loads returns no Song for such a text.
C15_NoSongForMismatchedBrackets ==
    (LoadsCalled /\ \E k \in 1..Len(StropheParts) : HasUnclosedBracket(StropheParts[k]))
        => IsRaised(loaded)

\* The first whitespace-delimited token of a part.
FirstToken(part) ==
    LET s == Strip(part)
        ends == {i \in 1..Len(s) : s[i] \in WhitespaceChars}
    IN  IF ends = {} THEN s ELSE Take(s, Min(ends) - 1)

\* What follows the first token and the whitespace after it.
AfterFirstToken(part) ==
    LStrip(Drop(Strip(part), Len(FirstToken(part))), WhitespaceChars)

\* The mark and the body the contract names for a part.
MarkByToken(part) ==
    LET token == MarkToken(FirstToken(part))
        rest == AfterFirstToken(part)
    IN  CASE token = <<"R">> -> [mark |-> ChorusMark, body |-> rest]
          [] token = <<"C">> -> [mark |-> CodaMark, body |-> rest]
          [] token # <<>> /\ \A i \in 1..Len(token) : token[i] \in Digits ->
                [mark |-> NumberedStropheMark(IntOf(token)), body |-> rest]
          [] Len(token) = 1 /\ token[1] \in {"A", "B", "D", "E"} ->
                [mark |-> LetteredStropheMark(token[1]), body |-> rest]
          [] OTHER -> [mark |-> EmptyStropheMark, body |-> part]

\* C16: the first token of a strophe part, without its trailing "." and
\* ":", decides the mark: R the chorus, C the coda, digits a numbered and a
\* letter A-E a lettered mark, with the rest of the part as body; any other
\* first token, a part of a single token included, gives EmptyStropheMark
\* with the whole part as body; the mark detection raises nothing.
C16_StropheMark ==
    LoadsCalled =>
        \A k \in 1..Len(StropheParts) :
            _parse_strophe_mark(StropheParts[k]) = MarkByToken(StropheParts[k])

\* The part of C16 that holds: a part of two or more tokens whose first
\* token is not a run of several letters A-E gets the stated mark and body.
C16_StropheMarkOfSeveralTokens ==
    LoadsCalled =>
        \A k \in 1..Len(StropheParts) :
            LET part == StropheParts[k]
                token == MarkToken(FirstToken(part))
            IN  (/\ AfterFirstToken(part) # <<>>
                 /\ ~(Len(token) > 1 /\ \A i \in 1..Len(token) : token[i] \in {"A", "B", "C", "D", "E"}))
                => _parse_strophe_mark(part) = MarkByToken(part)

\* The segments of the items ahead of the k-th.
RECURSIVE SegmentsAhead(_, _)
SegmentsAhead(items, k) ==
    IF k <= 1 THEN 0 ELSE SegmentsAhead(items, k - 1) + Len(items[k - 1].segments)

\* The song s that loads returned as objects of a heap: every annotation
\* and every segment is an object of its own.
AsObjects(s) ==
    LET first == Len(s.annotations) + 1
    IN  [heap |-> [k \in 1..Len(s.items) |->
                     [s.items[k] EXCEPT !.segments =
                        [m \in 1..Len(s.items[k].segments) |->
                           [s.items[k].segments[m] EXCEPT
                              !.oid = first + SegmentsAhead(s.items, k) + m - 1]]]],
         song |-> Song([k \in 1..Len(s.annotations) |-> [s.annotations[k] EXCEPT !.oid = k]],
                       [k \in 1..Len(s.items) |-> k]),
         next_oid |-> first + SegmentsAhead(s.items, Len(s.items) + 1)]

\* s.normalized() of a song that loads returned, as == compares it: the
\* annotations and the items by their fields.
NormalizedValue(s) ==
    LET objects == AsObjects(s)
        call == normalized(objects.heap, objects.next_oid, objects.song)
    IN  IF IsSong(call.outcome)
        THEN [annotations |-> [k \in 1..Len(call.outcome.annotations) |->
                                 [cls |-> call.outcome.annotations[k].cls,
                                  value |-> call.outcome.annotations[k].value]],
              items |-> [k \in 1..Len(call.outcome.items) |->
                           ItemValue(call.heap, call.outcome.items[k])]]
        ELSE call.outcome

\* C17: when loads succeeds on a text, loads succeeds on the dump of the
\* loaded song as well, and the two songs are equal once both are
\* normalized.
C17_RoundTrip ==
    ppc = "reloaded" =>
        /\ IsSong(reloaded)
        /\ NormalizedValue(reloaded) = NormalizedValue(loaded)

\* The part of C17 that holds: a song with a heading whose author holds no
\* " - " and whose segments hold no line break comes back equal.
C17_RoundTripWithHeading ==
    (/\ ppc = "reloaded"
     /\ loaded.annotations # <<>>
     /\ ~Contains(loaded.annotations[1].value, heading_markers[1])
     /\ \A k \in 1..Len(loaded.items) : \A m \in 1..Len(loaded.items[k].segments) :
           ~Contains(loaded.items[k].segments[m].text, <<"\n">>))
    => /\ IsSong(reloaded)
       /\ NormalizedValue(reloaded) = NormalizedValue(loaded)

----------------------------------------------------------------------------
(* Claims about ModifiedSongsLatexFormat.                                  *)

\* loads accepted latex_text and normalized() was called on the song.
LatexNormalized == lpc \in {"normalized", "dumped"}

\* C18: for every song text t that ModifiedSongsLatexFormat.loads accepts,
\* dumps(loads(t).normalized(), chords=True) returns a string and raises
\* nothing: neither normalized() nor dumps raises.
C18_DumpsRaisesNothing ==
    /\ LatexNormalized => ~IsRaised(dump_song)
    /\ lpc = "dumped" => ~IsRaised(latex_dumped)

\* Some strophe of the song that dumps is called on has the mark.
HasStropheMarked(mark) ==
    \E k \in 1..Len(dump_song.items) :
        /\ dump_heap[dump_song.items[k]].cls = "Strophe"
        /\ dump_heap[dump_song.items[k]].mark = mark

\* What holds of C18: dumps returns a string for every normalized song
\* whose annotations are the title and the author only and that holds no
\* strophe that normalized() marked as the coda.
C18_DumpsUnlessUnrendered ==
    (/\ lpc = "dumped"
     /\ DisplayableAnnotations(dump_song.annotations) = <<>>
     /\ ~HasStropheMarked(CodaMark))
        => ~IsRaised(latex_dumped)

\* loads was called on latex_text.
LatexLoadsCalled == lpc # "typing"

IsSongParseError(outcome) == IsRaised(outcome) /\ outcome.raised = "SongParseError"

\* The characters of word are those of text from the index i on.
HoldsAt(text, i, word) ==
    /\ i + Len(word) - 1 <= Len(text)
    /\ SubSeq(text, i, i + Len(word) - 1) = word

\* The index of the brace that closes the title of a \beginsong{title}
\* marker that text holds behind its first lead characters; 0 when there is
\* no such marker. The title is not empty.
TitleCloseAfter(text, lead) ==
    LET closes == {c \in lead + 13..Len(text) :
                      /\ text[c] = "}"
                      /\ \A i \in lead + 12..c - 1 : text[i] # "}"}
    IN  IF HoldsAt(text, lead + 1, <<"\\", "b", "e", "g", "i", "n", "s", "o", "n", "g", "{">>) /\ closes # {}
        THEN Min(closes) ELSE 0

\* The index of the last character of that marker, its bracketed
\* annotations included.
MarkerEndAfter(text, lead) ==
    LET close == TitleCloseAfter(text, lead)
        brackets == {r \in close + 3..Len(text) :
                        /\ close # 0
                        /\ text[close + 1] = "["
                        /\ text[r] = "]"
                        /\ \A i \in close + 2..r - 1 : text[i] # "]"}
    IN  IF brackets # {} THEN Min(brackets) ELSE close

\* The backslash at the index p of text opens a verse: one of the
\* verse-opening commands follows it as a whole word.
OpensVerse(text, p) ==
    /\ text[p] = "\\"
    /\ \E k \in 1..Len(beginverse_commands) :
          LET name == beginverse_commands[k]
          IN  /\ HoldsAt(text, p + 1, name)
              /\ p + Len(name) < Len(text) => text[p + Len(name) + 1] \notin WordChars

\* The number of verse-opening commands of the text behind the marker.
VerseOpeningsAfter(text, lead) ==
    Cardinality({p \in MarkerEndAfter(text, lead) + 1..Len(text) : OpensVerse(text, p)})

\* The statement of C19 for a marker behind the first lead characters.
ParseErrorsAfter(text, lead) ==
    /\ TitleCloseAfter(text, lead) = 0 => IsSongParseError(latex_loaded)
    /\ (TitleCloseAfter(text, lead) # 0 /\ VerseOpeningsAfter(text, lead) < 2)
          => IsSongParseError(latex_loaded)
    /\ (TitleCloseAfter(text, lead) # 0 /\ VerseOpeningsAfter(text, lead) >= 2)
          => latex_loaded \notin {BeginsongNotFound, NoStrophesFound}

\* C19 as stated: ModifiedSongsLatexFormat.loads raises a SongParseError
\* when the text does not begin with a \beginsong{title} marker, and when
\* the text after the marker contains fewer than two verse-opening
\* commands; with a valid marker and two or more verse-opening commands
\* neither of these two errors is raised.
C19_ParseErrors ==
    LatexLoadsCalled => ParseErrorsAfter(latex_text, 0)

\* C19, amended: the same with a marker that may follow leading whitespace.
C19_ParseErrorsAfterWhitespace ==
    LatexLoadsCalled
        => ParseErrorsAfter(latex_text, LeadingRun(latex_text, WhitespaceChars))

\* A text with a marker behind whitespace and a single verse-opening
\* command was refused for its strophes.
C19_Witness ==
    /\ lpc = "loaded"
    /\ LeadingRun(latex_text, WhitespaceChars) > 0
    /\ TitleCloseAfter(latex_text, LeadingRun(latex_text, WhitespaceChars)) # 0
    /\ VerseOpeningsAfter(latex_text, LeadingRun(latex_text, WhitespaceChars)) = 1
    /\ latex_loaded = NoStrophesFound

\* dumps was called on a song that was built item by item.
SongDumped == lpc = "dumped" /\ latex_loaded = None

IsRepeat(k) ==
    /\ k \in 1..Len(dump_song.items)
    /\ dump_heap[dump_song.items[k]].cls = "StropheRepeat"

\* The k-th item and the one before it are StropheRepeats of the same
\* strophe: the strophes they refer to are equal.
ContinuesRun(k) ==
    /\ IsRepeat(k)
    /\ IsRepeat(k - 1)
    /\ ItemValue(dump_heap, dump_heap[dump_song.items[k]].repeated_strophe)
          = ItemValue(dump_heap, dump_heap[dump_song.items[k - 1]].repeated_strophe)

\* The indexes of the items that begin a maximal run of StropheRepeats.
RunStarts == {k \in 1..Len(dump_song.items) : IsRepeat(k) /\ ~ContinuesRun(k)}

\* The length of the run that begins with the k-th item.
RunLength(k) ==
    Min({n \in 1..Len(dump_song.items) : ~ContinuesRun(k + n)})

\* The lines of a dump that hold a repeat instruction, in their order.
RECURSIVE RepeatLines(_)
RepeatLines(lines) ==
    IF lines = <<>> THEN <<>>
    ELSE (IF StartsWith(Head(lines), <<"\\", "r", "e", "p">>) THEN <<Head(lines)>> ELSE <<>>)
         \o RepeatLines(Tail(lines))

\* What a repeat instruction carries in its braces for a run of k repeats.
RepeatArgument(k) ==
    <<"{">> \o (IF k > 1 THEN <<"\\", "r", "e", "p", "{">> \o StrOf(k) \o <<"}">> ELSE <<>>) \o <<"}">>

\* The dump holds one repeat instruction per run, in the order of the runs,
\* each with the length of its run when that is more than 1.
OneInstructionPerRun ==
    LET instructions == RepeatLines(Split(latex_dumped.value, <<"\n">>))
        starts == Sorted(RunStarts)
    IN  /\ Len(instructions) = Len(starts)
        /\ \A j \in 1..Len(starts) :
              \E name \in {<<"\\", "r", "e", "p", "c", "h", "o", "r", "u", "s">>, <<"\\", "r", "e", "p", "c", "h", "o", "r", "u", "s", "i">>, <<"\\", "r", "e", "p", "c", "h", "o", "r", "u", "s", "i", "i">>} :
                  instructions[j] = name \o RepeatArgument(RunLength(starts[j]))

\* C20: in ModifiedSongsLatexFormat.dumps every maximal run of k consecutive
\* StropheRepeat items that share the same referenced strophe is rendered
\* as exactly one repeat-chorus instruction, carrying \rep{k} when k > 1 and
\* no \rep when k = 1; no repeat of the run is rendered on its own and no
\* repeat is dropped.
C20_RunsCoalesced ==
    SongDumped => ~IsRaised(latex_dumped) /\ OneInstructionPerRun

\* What holds of C20: the same for the songs all of whose StropheRepeats
\* refer to a strophe marked as a chorus, or as the chorus 1 or 2.
C20_ChorusRunsCoalesced ==
    (/\ SongDumped
     /\ \A k \in 1..Len(dump_song.items) :
           IsRepeat(k) => repcommands(mark_of(dump_heap, dump_song.items[k])) # <<>>)
        => ~IsRaised(latex_dumped) /\ OneInstructionPerRun

----------------------------------------------------------------------------
(* Claims about splitlines (model.py:46-51, 155-159).                      *)

\* splitlines has been called on the segments of the last strophe.
SplitLinesCalled == apc = "split"

\* The segments that splitlines was called on.
SplitSegments == agama_song.items[Len(agama_song.items)].segments

\* The texts of the pieces, one after the other.
RECURSIVE ConcatTexts(_)
ConcatTexts(pieces) ==
    IF pieces = <<>> THEN <<>> ELSE Head(pieces).text \o ConcatTexts(Tail(pieces))

\* The pieces are of the kind and chord of seg, their texts make up its
\* text, and a newline is the last character of the piece that holds it.
SplitsIntoLines(seg, pieces) ==
    /\ \A i \in 1..Len(pieces) :
          /\ pieces[i].cls = seg.cls
          /\ pieces[i].chord = seg.chord
          /\ \A j \in 1..(Len(pieces[i].text) - 1) : pieces[i].text[j] # "\n"
    /\ ConcatTexts(pieces) = seg.text
    /\ seg.cls = "ChordedSegment" => pieces # <<>>

\* C21 as stated: splitlines returns pieces of the same kind and chord whose
\* texts concatenate to the text of the segment, a newline only ends a
\* piece, a piece without a newline (the final one) is never empty, and a
\* ChordedSegment never splits into an empty list.
C21_SplitLinesNoEmptyPiece ==
    SplitLinesCalled =>
        \A k \in 1..Len(SplitSegments) :
            /\ SplitsIntoLines(SplitSegments[k], split[k])
            /\ \A i \in 1..Len(split[k]) : split[k][i].text # <<>>

\* C21, amended: as above, but a piece is empty in one case, when it is the
\* only piece of a ChordedSegment whose text is empty.
C21_SplitLines ==
    SplitLinesCalled =>
        \A k \in 1..Len(SplitSegments) :
            /\ SplitsIntoLines(SplitSegments[k], split[k])
            /\ \A i \in 1..Len(split[k]) :
                  split[k][i].text = <<>> =>
                      /\ SplitSegments[k] = ChordedSegment(SplitSegments[k].chord, <<>>, 0)
                      /\ Len(split[k]) = 1

\* A ChordedSegment of two lines, an empty PlainSegment and an empty
\* ChordedSegment have been split.
C21_Witness ==
    /\ SplitLinesCalled
    /\ SplitSegments = <<ChordedSegment(ChordC, <<"a", "\n", "b">>, 0), PlainSegment(<<>>, 0),
                         ChordedSegment(ChordC, <<>>, 0)>>
    /\ split = << <<ChordedSegment(ChordC, <<"a", "\n">>, 0), ChordedSegment(ChordC, <<"b">>, 0)>>,
                  <<>>,
                  <<ChordedSegment(ChordC, <<>>, 0)>> >>

----------------------------------------------------------------------------
(* Claims about the chord mode of ModifiedSongsLatexFormat.loads           *)
(* (io.py:445-471, 565-581, 820-830).                                      *)

IsChordInstruction(x) == x.cls \in {"TurnChordsOn", "TurnChordsOff"}

\* The strings that loads parses as strophes: latex_text after its
\* \beginsong, split before the verse-opening commands; the first piece is
\* what stands ahead of the first strophe.
StropheStrings ==
    SplitBeforeCommands(_parse_beginsong(latex_text).remnant, beginverse_commands)

\* What follows the closing command of a strophe string: the text from
\* the first \fin or \cl on, or nothing.
AfterClosing(strophe_str) ==
    LET closings == {i \in 1..Len(strophe_str) :
                        HoldsAt(strophe_str, i, <<"\\", "f", "i", "n">>) \/ HoldsAt(strophe_str, i, <<"\\", "c", "l">>)}
    IN  IF closings = {} THEN <<>> ELSE Drop(strophe_str, Min(closings) - 1)

\* Where the instructions \chordson and \chordsoff begin in text.
InstructionsIn(text) ==
    {i \in 1..Len(text) :
        HoldsAt(text, i, <<"\\", "c", "h", "o", "r", "d", "s", "o", "n">>) \/ HoldsAt(text, i, <<"\\", "c", "h", "o", "r", "d", "s", "o", "f", "f">>)}

\* The chord mode the statement gives the v-th strophe string: on for the
\* first strophe (v = 2), else what the last instruction after the closing
\* command of the one before sets, else the mode of the one before.
RECURSIVE StatedChordMode(_)
StatedChordMode(v) ==
    IF v <= 2 THEN TRUE
    ELSE LET after == AfterClosing(StropheStrings[v - 1])
         IN  IF InstructionsIn(after) = {} THEN StatedChordMode(v - 1)
             ELSE HoldsAt(after, Max(InstructionsIn(after)), <<"\\", "c", "h", "o", "r", "d", "s", "o", "n">>)

\* Under chord mode a PlainSegment right after a ChordedSegment is joined
\* to it: the segments hold such a pair only when the mode was off.
HoldsUnjoinedPair(segments) ==
    \E m \in 1..(Len(segments) - 1) :
        segments[m].cls = "ChordedSegment" /\ segments[m + 1].cls = "PlainSegment"

\* The strophe of the v-th strophe string was parsed in the stated mode:
\* text after a chord of its body stands in a segment of its own exactly
\* when the mode is off.
ParsedInStatedMode(v, strophe) ==
    HoldsUnjoinedPair(strophe.segments)
        <=> (~StatedChordMode(v) /\ Contains(StropheStrings[v], <<"\\", "[", "C", "]", "{", "b", "}", "c">>))

\* The chord mode part of C22: every strophe of the song that loads
\* returned was parsed in the stated mode.
C22_StatedChordMode ==
    (LatexLoadsCalled /\ IsSong(latex_loaded)) =>
        \A k \in 1..Len(latex_loaded.items) :
            latex_loaded.items[k].key[2] = -1 =>
                ParsedInStatedMode(latex_loaded.items[k].key[1], latex_loaded.items[k].obj)

\* No chord instruction among the items and the segments of the song.
C22_NoChordInstructionInItems ==
    (LatexLoadsCalled /\ IsSong(latex_loaded)) =>
        \A k \in 1..Len(latex_loaded.items) :
            /\ ~(latex_loaded.items[k].obj.cls = "Annotation"
                 /\ IsChordInstruction(latex_loaded.items[k].obj.annot))
            /\ \A m \in 1..Len(latex_loaded.items[k].obj.segments) :
                  ~IsChordInstruction(latex_loaded.items[k].obj.segments[m])

\* C22: in the song that ModifiedSongsLatexFormat.loads returns every
\* strophe was parsed with the chord mode on if it is the first one and
\* else with the mode that the last \chordson or \chordsoff after the
\* closing command of an earlier strophe set, and no TurnChordsOn or
\* TurnChordsOff is among the items, the annotations or the segments of
\* the song.
C22_ChordMode ==
    /\ C22_StatedChordMode
    /\ C22_NoChordInstructionInItems
    /\ (LatexLoadsCalled /\ IsSong(latex_loaded)) =>
          \A k \in 1..Len(latex_loaded.annotations) :
              ~IsChordInstruction(latex_loaded.annotations[k])

----------------------------------------------------------------------------
(* Claims about the repeat commands (io.py:679-697, 750-756).              *)

\* The lines of repeat commands that follow the two strophes in latex_text.
RepeatCommandLines ==
    LET lines == Split(Drop(latex_text, Len(TwoStrophes)), <<"\n">>)
    IN  Take(lines, Len(lines) - 1)

\* The mark the statement gives the command at the head of line.
StatedRepeatMark(line) ==
    IF StartsWith(line, <<"\\", "r", "e", "p", "c", "h", "o", "r", "u", "s", "i", "i">>) THEN NumberedChorusMark(2)
    ELSE IF StartsWith(line, <<"\\", "r", "e", "p", "c", "h", "o", "r", "u", "s", "i">>) THEN NumberedChorusMark(1)
    ELSE ChorusMark

\* The argument of the command of line: what its braces hold, nothing when
\* it has none.
RepeatArgumentOf(line) ==
    IF ~Contains(line, <<"{">>) THEN <<>>
    ELSE SubSeq(line, Find(line, <<"{">>) + 2, Len(line) - 1)

\* The argument ends with \rep{n}, n a digit.
EndsWithRep(argument) ==
    /\ Len(argument) >= 7
    /\ SubSeq(argument, Len(argument) - 6, Len(argument) - 2) = <<"\\", "r", "e", "p", "{">>
    /\ argument[Len(argument) - 1] \in Digits
    /\ argument[Len(argument)] = "}"

\* The number of placeholders the statement gives the command of line.
StatedRepeats(line) ==
    IF EndsWithRep(RepeatArgumentOf(line))
    THEN DigitValue(RepeatArgumentOf(line)[Len(RepeatArgumentOf(line)) - 1])
    ELSE 1

\* The texts of the segments the statement gives each placeholder: the
\* argument without its \rep{n}.
StatedRepeatTexts(line) ==
    LET argument == RepeatArgumentOf(line)
        kept == IF EndsWithRep(argument) THEN Take(argument, Len(argument) - 7) ELSE argument
    IN  IF kept = <<>> THEN <<>> ELSE <<kept>>

\* The placeholders the statement gives the lines, in order: the mark and
\* the texts of the segments of each.
RECURSIVE StatedPlaceholders(_)
StatedPlaceholders(lines) ==
    IF lines = <<>> THEN <<>>
    ELSE [k \in 1..StatedRepeats(Head(lines)) |->
             [mark |-> StatedRepeatMark(Head(lines)), texts |-> StatedRepeatTexts(Head(lines))]]
         \o StatedPlaceholders(Tail(lines))

\* The items of the loaded song after its two strophes are placeholders:
\* the mark and the texts of the segments of each, all PlainSegments.
LoadedPlaceholders ==
    [k \in 1..(Len(latex_loaded.items) - 2) |->
        [mark |-> latex_loaded.items[k + 2].obj.mark,
         texts |-> [m \in 1..Len(latex_loaded.items[k + 2].obj.segments) |->
                       latex_loaded.items[k + 2].obj.segments[m].text]]]

AllPlaceholders ==
    \A k \in 3..Len(latex_loaded.items) :
        /\ latex_loaded.items[k].obj.cls = "RepeatStropheWithSameMark"
        /\ \A m \in 1..Len(latex_loaded.items[k].obj.segments) :
              latex_loaded.items[k].obj.segments[m].cls = "PlainSegment"

\* loads was called on two strophes and the repeat commands after them.
RepeatCommandsLoaded ==
    LatexLoadsCalled /\ StartsWith(latex_text, TwoStrophes)

\* C23: \repchorus, \repchorusi and \repchorusii yield placeholders with
\* the mark ChorusMark, NumberedChorusMark(1) and NumberedChorusMark(2):
\* n of them when the argument ends with \rep{n}, one when it has no \rep,
\* also when the argument is empty or absent, and the count is not among
\* the segments of the placeholder.
C23_RepeatPlaceholders ==
    RepeatCommandsLoaded =>
        /\ IsSong(latex_loaded)
        /\ AllPlaceholders
        /\ LoadedPlaceholders = StatedPlaceholders(RepeatCommandLines)

\* What holds of C23: the same for the commands whose argument is not
\* empty.
C23_RepeatPlaceholdersOfArguments ==
    (/\ RepeatCommandsLoaded
     /\ \A k \in 1..Len(RepeatCommandLines) : RepeatArgumentOf(RepeatCommandLines[k]) # <<>>)
        => /\ IsSong(latex_loaded)
           /\ AllPlaceholders
           /\ LoadedPlaceholders = StatedPlaceholders(RepeatCommandLines)

\* A command with an empty argument and one with none make loads raise
\* IndexError.
C23_EmptyArgumentRaises ==
    (/\ RepeatCommandsLoaded
     /\ \E k \in 1..Len(RepeatCommandLines) : RepeatArgumentOf(RepeatCommandLines[k]) = <<>>)
        => latex_loaded = IndexError

----------------------------------------------------------------------------
(* Claims about the strophe indent of DefaultFormat.dumps (io.py:287-306). *)

\* DefaultFormat.dumps has returned.
DefaultDumpsCalled == ppc \in {"dumped", "reloaded"}

\* The short mark with its delimiter, as dumps renders it: nothing for a
\* mark whose short form is empty.
ShortMarkWithDelimiter(mark) ==
    IF MarkToString(mark) = <<>> THEN <<>> ELSE MarkToString(mark) \o <<".">>

\* The strophes as they stand in the dump: the pieces between the empty
\* lines, after the heading.
DumpedStrophes == Tail(Split(dumped, <<"\n", "\n">>))

\* The chord in brackets ahead of each of the lines.
ChordAheadOfLines(chord, lines) ==
    IF lines = <<>> THEN <<"[">> \o ChordToString(chord) \o <<"]">>
    ELSE Join([k \in 1..Len(lines) |-> <<"[">> \o ChordToString(chord) \o <<"]">> \o lines[k]],
              <<>>)

\* The text of the segments of a strophe, the chord of a segment in
\* brackets ahead of each line of its text.
RECURSIVE RawBody(_)
RawBody(segments) ==
    IF segments = <<>> THEN <<>>
    ELSE (IF Head(segments).cls = "ChordedSegment"
          THEN ChordAheadOfLines(Head(segments).chord, LineTexts(Head(segments).text))
          ELSE Head(segments).text)
         \o RawBody(Tail(segments))

\* The lines without their first width characters.
Unindented(lines, width) == [j \in 1..Len(lines) |-> Drop(lines[j], width)]

\* text is the strophe rendered with an indent of width: its first line
\* begins with the mark and its delimiter, filled with spaces to the width,
\* every further line begins with width spaces, and what follows on the
\* lines is the text of the segments.
RenderedWithIndent(text, strophe, width) ==
    LET lines == Split(text, <<"\n">>)
        mark_str == ShortMarkWithDelimiter(strophe.mark)
    IN  /\ Len(mark_str) <= width
        /\ \A j \in 1..Len(lines) : Len(lines[j]) >= width
        /\ Take(lines[1], width) = mark_str \o Spaces(width - Len(mark_str))
        /\ \A j \in 2..Len(lines) : Take(lines[j], width) = Spaces(width)
        /\ Join(Unindented(lines, width), <<"\n">>) = RawBody(strophe.segments)

\* The length of the longest short mark with its delimiter, 0 for no
\* strophes.
LongestMarkWithDelimiter(items) ==
    IF items = <<>> THEN 0
    ELSE Max({Len(ShortMarkWithDelimiter(items[k].mark)) : k \in 1..Len(items)})

\* The strophes of the dump are those of the song, each rendered with an
\* indent of width.
AllRenderedWithIndent(width) ==
    /\ Len(DumpedStrophes) = Len(loaded.items)
    /\ \A k \in 1..Len(loaded.items) :
          RenderedWithIndent(DumpedStrophes[k], loaded.items[k], width)

\* C24 as stated: the indent of dumps is the length of the longest short
\* mark with its delimiter over the strophes of the song, 0 for none, and
\* every strophe is rendered with it: the mark prefix is that wide and the
\* further lines are indented by that many spaces.
C24_IndentOfLongestMark ==
    DefaultDumpsCalled => AllRenderedWithIndent(LongestMarkWithDelimiter(loaded.items))

\* C24, amended: the indent is one more than that length, the space that
\* parts the mark from the text, and 0 for a song without strophes.
C24_IndentOfLongestMarkAndSpace ==
    DefaultDumpsCalled =>
        AllRenderedWithIndent(IF loaded.items = <<>> THEN 0
                              ELSE LongestMarkWithDelimiter(loaded.items) + 1)

\* A song of a strophe without a mark and a numbered strophe of two lines
\* has been dumped with the indent 3.
C24_Witness ==
    /\ DefaultDumpsCalled
    /\ Len(loaded.items) = 2
    /\ loaded.items[1].mark = EmptyStropheMark
    /\ loaded.items[2].mark = NumberedStropheMark(1)
    /\ Len(DumpedStrophes) = 2
    /\ StartsWith(DumpedStrophes[1], <<" ", " ", " ", "x", " ">>)
    /\ StartsWith(DumpedStrophes[2], <<"1", ".", " ", "a">>)
    /\ Contains(DumpedStrophes[2], <<"\n", " ", " ", " ", "c">>)

----------------------------------------------------------------------------
(* Claims about AgamaFormat.dump_strophe (io.py:322-362).                  *)

\* dump_strophe has been called on the strophes of the song.
AgamaDumped == apc = "dumped"

\* The single-line segments of a strophe, line by line: a line ends with
\* the segment whose text ends with a newline.
RECURSIVE LinesOfSegments(_, _)
LinesOfSegments(segments, line) ==
    IF segments = <<>> THEN (IF line = <<>> THEN <<>> ELSE <<line>>)
    ELSE IF EndsWithNewline(Head(segments).text)
         THEN <<Append(line, Head(segments))>> \o LinesOfSegments(Tail(segments), <<>>)
         ELSE LinesOfSegments(Tail(segments), Append(line, Head(segments)))

\* The lyric text of a segment on its row: its text without the newline.
LyricOf(seg) == RStrip(seg.text, {"\n"})

\* The width that a segment takes on both rows: that of its text, and for
\* a chord that of its name and a space if that is more.
CellWidth(seg) ==
    IF seg.cls = "ChordedSegment"
    THEN Max({Len(ChordToString(seg.chord)) + 1, Len(seg.text)})
    ELSE Len(seg.text)

\* The column, counted from 0, at which the m-th segment of the line
\* begins after an indent of width.
RECURSIVE ColumnOf(_, _, _)
ColumnOf(line, m, width) ==
    IF m = 1 THEN width ELSE ColumnOf(line, m - 1, width) + CellWidth(line[m - 1])

\* The segments of the line that have a chord and a lyric text.
ChordedWithLyric(line) ==
    {m \in 1..Len(line) : line[m].cls = "ChordedSegment" /\ LyricOf(line[m]) # <<>>}

\* Two rows of the text, one below the other, hold the line: each chord
\* name begins on the upper row at the column at which the lyric text of
\* its segment begins on the lower row.
LineAligned(text, line, width) ==
    LET rows == Split(text, <<"\n">>)
    IN  ChordedWithLyric(line) # {} =>
            \E r \in 1..(Len(rows) - 1) :
                \A m \in ChordedWithLyric(line) :
                    /\ HoldsAt(rows[r], ColumnOf(line, m, width) + 1,
                               ChordToString(line[m].chord))
                    /\ HoldsAt(rows[r + 1], ColumnOf(line, m, width) + 1, LyricOf(line[m]))

\* The chords of every line of the strophe stand above their lyrics.
ChordsAligned(text, strophe, width) ==
    LET lines == LinesOfSegments(single_line_segments(strophe.segments), <<>>)
    IN  \A l \in 1..Len(lines) : LineAligned(text, lines[l], width)

\* The indent of the song that was dumped.
AgamaIndent == _determine_strophe_indent(agama_song.items)

\* C25: AgamaFormat.dump_strophe with chords on and the indent of the song
\* succeeds for every strophe, also for one without segments and for one
\* whose last segment ends with a newline, and every chord name begins at
\* the column of the first character of the lyric text of its segment on
\* the row below.
C25_ChordsAboveLyrics ==
    AgamaDumped =>
        \A k \in 1..Len(agama_song.items) :
            /\ ~IsRaised(agama_dumped[k])
            /\ ChordsAligned(agama_dumped[k].value, agama_song.items[k], AgamaIndent)

\* What holds of C25: the chords stand above their lyrics in every strophe
\* that dump_strophe returns a text for.
C25_ChordsAboveLyricsIfDumped ==
    AgamaDumped =>
        \A k \in 1..Len(agama_song.items) :
            ~IsRaised(agama_dumped[k]) =>
                ChordsAligned(agama_dumped[k].value, agama_song.items[k], AgamaIndent)

\* dump_strophe raises IndexError exactly for the strophes that have no
\* segment with text or whose last segment ends with a newline.
C25_RaisesForOpenLastLine ==
    AgamaDumped =>
        \A k \in 1..Len(agama_song.items) :
            LET lines == single_line_segments(agama_song.items[k].segments)
            IN  agama_dumped[k] = IndexError
                    <=> (lines = <<>> \/ EndsWithNewline(lines[Len(lines)].text))

----------------------------------------------------------------------------
(* Claims about ModifiedSongsLatexFormat.dump_chord (io.py:798-809).       *)

\* dump_chord was called on the parsed chord and its dump was parsed.
ChordDumped == pc = "dumped"

\* The length of the run of modifiers of the level at the head of mods.
RECURSIVE LevelRun(_, _)
LevelRun(mods, level) ==
    IF mods = <<>> \/ ModifierLevel(Head(mods)) # level THEN 0
    ELSE 1 + LevelRun(Tail(mods), level)

\* The groups the statement gives the modifiers: each maximal run of one
\* level, bare for level 0 and in one \hidx{...} for level 1.
RECURSIVE StatedGroups(_)
StatedGroups(mods) ==
    IF mods = <<>> THEN <<>>
    ELSE LET n == LevelRun(mods, ModifierLevel(Head(mods)))
         IN  (IF ModifierLevel(Head(mods)) = 0 THEN JoinModifiers(Take(mods, n))
              ELSE <<"\\", "h", "i", "d", "x", "{">> \o JoinModifiers(Take(mods, n)) \o <<"}">>)
             \o StatedGroups(Drop(mods, n))

\* The root with every # written as \shrp{}.
RECURSIVE StatedRoot(_)
StatedRoot(chord_root) ==
    IF chord_root = <<>> THEN <<>>
    ELSE (IF Head(chord_root) = "#" THEN <<"\\", "s", "h", "r", "p", "{", "}">> ELSE <<Head(chord_root)>>)
         \o StatedRoot(Tail(chord_root))

\* The rendering part of C26: dump_chord gives the root and the groups.
C26_DumpChordGroups ==
    ChordDumped =>
        chord_dumped = StatedRoot(parsed.root) \o StatedGroups(parsed.modifiers)

\* C26: dump_chord renders the root, # as \shrp{}, and one group per
\* maximal run of modifiers of one level, level 0 bare and level 1 in one
\* \hidx{...}; and for every chord c that the chord parser returned,
\* ModifiedSongsLatexChordParser.parse(dump_chord(c)) == c.
C26_DumpChordRoundTrip ==
    /\ C26_DumpChordGroups
    /\ ChordDumped => chord_loaded = parsed

\* What holds of the round trip: the dump parses to what the chord's own
\* rendering parses to.
C26_DumpParsesAsRendering ==
    ChordDumped => chord_loaded = parse(ChordToString(parsed))

----------------------------------------------------------------------------
(* Claims about the termination of the parser of strophe bodies            *)
(* (io.py:548-563, 583-639, 659-667).                                      *)

\* The call returned, and to the position it was given: the loop that made
\* the call makes it again.
ReturnsWhereItBegan(part, pos) == ~IsRaised(part) /\ part.pos <= pos

\* C27: for every body and every position in it, each call of
\* _parse_strophe_part raises or returns a position strictly greater than
\* the one it was given, and _parse_strophe_segments finishes for every
\* body, also for one with a stray {, }, [ or ] or a backslash at its end.
C27_ParserTerminates ==
    /\ bpc = "parts" =>
          \A k \in 1..Len(body_text) :
              /\ parsed_parts[k] # NeverReturns
              /\ ~ReturnsWhereItBegan(parsed_parts[k], k - 1)
    /\ bpc = "parsed" => body_segments # NeverReturns

\* What holds of C27: a call of _parse_strophe_part returns the position
\* it was given only at a {, }, [, ] or backslash, and a body without
\* these characters is parsed to the end.
C27_StallsAtTokensOnly ==
    /\ bpc = "parts" =>
          \A k \in 1..Len(body_text) :
              ReturnsWhereItBegan(parsed_parts[k], k - 1)
                  => /\ body_text[k] \in {"{", "}", "[", "]", "\\"}
                     /\ parsed_parts[k].pos = k - 1
    /\ (bpc = "parsed" /\ \A k \in 1..Len(body_text) :
                              body_text[k] \notin {"{", "}", "[", "]", "\\"})
          => ~IsRaised(body_segments)

\* The body that is a single } makes _parse_strophe_part return the
\* position 0 it was given, with no segment.
C27_StrayBraceStalls ==
    (bpc = "parts" /\ body_text = <<"}">>) => parsed_parts = <<[segs |-> <<>>, pos |-> 0]>>

----------------------------------------------------------------------------
(* Claims about the placeholders after Song.normalized()                   *)
(* (model.py:378-407).                                                     *)

\* normalized() has returned a song.
NormalizedSong == npc = "normalized" /\ IsSong(result)

\* No item of the returned song is a RepeatStropheWithSameMark.
NoPlaceholderItem ==
    \A i \in 1..Len(result.items) : heap[result.items[i]].cls # "RepeatStropheWithSameMark"

\* The StropheRepeat items of the returned song.
RepeatItems == {i \in 1..Len(result.items) : heap[result.items[i]].cls = "StropheRepeat"}

\* The referent of the repeat at item i is an ordinary strophe.
ReferentOrdinary(i) == heap[heap[result.items[i]].repeated_strophe].cls = "Strophe"

\* The referent of the repeat at item i is an earlier item of the same list.
ReferentEarlier(i) ==
    \E j \in 1..(i - 1) : result.items[j] = heap[result.items[i]].repeated_strophe

\* The song that was normalized holds at items i - 1 and i placeholders of
\* one mark without segments: two of a run of repeats of the same strophe.
PlaceholderAfterPlaceholder(i) ==
    /\ i > 1
    /\ i <= Len(song.items)
    /\ heap[song.items[i]].cls = "RepeatStropheWithSameMark"
    /\ heap[song.items[i - 1]].cls = "RepeatStropheWithSameMark"
    /\ heap[song.items[i]].mark = heap[song.items[i - 1]].mark
    /\ heap[song.items[i]].segments = <<>>
    /\ heap[song.items[i - 1]].segments = <<>>

\* C28: after any successful normalized(), no unresolved placeholder
\* remains reachable from the result: no item is a
\* RepeatStropheWithSameMark, and the referent of every StropheRepeat is an
\* ordinary strophe, not a placeholder, that occurs earlier in the same
\* item list; also when the same mark is repeated several times and when
\* one \repchorus{\rep{n}} produced n placeholders.
C28_NoPlaceholderReachable ==
    NormalizedSong =>
        /\ NoPlaceholderItem
        /\ \A i \in RepeatItems : ReferentOrdinary(i) /\ ReferentEarlier(i)

\* What holds of C28: no item of the result is a placeholder.
C28_NoPlaceholderItem == NormalizedSong => NoPlaceholderItem

\* What the code does for a run of placeholders: the repeat made of a
\* placeholder that directly follows another one of its mark refers to a
\* placeholder, which is no item of the result.
C28_SecondRepeatRefersToPlaceholder ==
    NormalizedSong =>
        \A i \in 1..Len(song.items) :
            PlaceholderAfterPlaceholder(i) =>
                \E k \in RepeatItems :
                    /\ heap[heap[result.items[k]].repeated_strophe].cls = "RepeatStropheWithSameMark"
                    /\ ~ReferentEarlier(k)

\* The song that was normalized holds no two placeholders of one mark.
OnePlaceholderPerMark ==
    \A i \in 1..Len(song.items) : \A j \in 1..(i - 1) :
        (/\ heap[song.items[i]].cls = "RepeatStropheWithSameMark"
         /\ heap[song.items[j]].cls = "RepeatStropheWithSameMark")
            => heap[song.items[i]].mark # heap[song.items[j]].mark

\* When no mark has two placeholders, every referent is an ordinary
\* strophe; and a referent that is an ordinary strophe is always an
\* earlier item of the result.
C28_OrdinaryReferents ==
    NormalizedSong =>
        \A i \in RepeatItems :
            /\ OnePlaceholderPerMark => ReferentOrdinary(i)
            /\ ReferentOrdinary(i) => ReferentEarlier(i)
====
